---- MODULE Spec2Model ----
(***************************************************************************)
(* Model of the fortune engine's per-user memory store and orchestrator    *)
(* (fortune_engine.py).  The backing store is the file MEMORY_FILE; every  *)
(* mutation is load - modify - save, and save stages the document in       *)
(* MEMORY_FILE + ".tmp" and renames it over the store.                     *)
(*                                                                         *)
(* Files are modelled as on a POSIX file system: a directory maps the two  *)
(* paths to inodes, an open handle keeps its inode and its own offset, a   *)
(* write lands at the handle's offset, os.replace re-points the store path *)
(* to the staged inode.  A JSON document is a sequence of lexical chunks   *)
(* (tokens); json.load is a parser of that sequence, json.dump a printer.  *)
(***************************************************************************)
EXTENDS Integers, Sequences, FiniteSets, TLC

\* ------------------------------------------------------------------ bounds

Procs == {"p1", "p2"}
Users == {"ada", "bob"}

\* KEEP_HISTORY of fortune_engine.py: the retention cap.
KEEP_HISTORY == 12
\* Appends the first user may make under SpecAppend (the cap is exceeded).
MaxAppends == 15
\* Appends every other user may make under SpecAppend.
MaxOtherAppends == 2
\* Tokens that fit the writer's buffer: a save writes its document in
\* flushes of this many tokens, the remainder on close.
BufTokens == 3
\* Ticks of the clock in a day.
TicksPerDay == 2
\* The model stops letting days go by at this time.
MaxClock == 8
\* Appends made under SpecStore.
MaxStoreAppends == 3
\* The largest argument given to purge_memory_older_than.
MaxDays == 2
\* Appends made under SpecConc.
MaxConcAppends == 2
\* Calls (append or purge) that get past their load under SpecCrash.
MaxCrashCalls == 3
\* Calls of generate_fortune that get to an append under SpecGen.
MaxGenCalls == 1

\* Most words of a text of the calls of the cleaner.
MaxWords == 10
\* Most sentences of a text of the calls of the cleaner.
MaxSentences == 3
\* Highest value of a trait in the profiles of whole numbers; the lowest is 1.
MaxTrait == 5

InoIds == 1 .. (Cardinality(Procs) + 2)

VARIABLES
    dir,      \* directory: [store, tmp] -> inode id, 0 when the path is absent
    data,     \* inode id -> content, a sequence of tokens
    fd,       \* process -> open handle [ino, off] on the staged file (ino 0: none)
    pc,       \* process -> position in the code
    ret,      \* process -> stack of positions to return to
    op,       \* process -> the running top-level call and its arguments
    mem,      \* process -> local variable mem / data of the running call
    out,      \* process -> return value of the last call that returned
    arg,      \* process -> the arguments of its append_memory_entry call
    loc,      \* process -> the other local variables of the running call
    saved,    \* process -> what its last safe_write_json returned
    clock,    \* datetime.now(), in ticks
    log,      \* history variable: the entries built by append, in order
    pre,      \* history variable: process -> the store's mapping when its call began
    raised,   \* history variable: process -> a step of its running save raised
    lastSaved, \* history variable: the document the last finished save put in place
    TRANSFORMERS_AVAILABLE, \* the module's flag: transformers imported and not FORCE_RULE_BASED
    model,    \* _model and _tokenizer: "none" or "loaded"
    faults    \* history variable: process -> what failed in the appends of its running call

vars == <<dir, data, fd, pc, ret, op, mem, out, arg, loc, saved, clock, log, pre, raised, lastSaved,
          TRANSFORMERS_AVAILABLE, model, faults>>

\* ------------------------------------------------------- sequences, mappings

Min(a, b) == IF a <= b THEN a ELSE b

\* A dict in insertion order: a sequence of [name, hist] pairs, names distinct.
EmptyMem == <<>>

Keys(m) == {m[i].name : i \in 1 .. Len(m)}

\* mem.get(name, [])
Get(m, name) ==
    IF name \in Keys(m)
    THEN LET i == CHOOSE j \in 1 .. Len(m) : m[j].name = name IN m[i].hist
    ELSE <<>>

\* mem[name] = hist: an existing key keeps its place, a new key goes last.
Set(m, name, hist) ==
    IF name \in Keys(m)
    THEN [i \in 1 .. Len(m) |-> IF m[i].name = name THEN [name |-> name, hist |-> hist] ELSE m[i]]
    ELSE Append(m, [name |-> name, hist |-> hist])

\* del mem[name]
Del(m, name) == SelectSeq(m, LAMBDA kv : kv.name # name)

\* ---------------------------------------------------------------- JSON text

TokOpen == [k |-> "open"]
TokClose == [k |-> "close"]
TokNul == [k |-> "nul"]
TokUser(u) == [k |-> "user", u |-> u]
TokEntry(e) == [k |-> "entry", e |-> e]
\* A whole JSON document whose root is no object: t is the type json.load
\* gives it ("list", "str", "int", "bool", "null").
TokRoot(t) == [k |-> "root", t |-> t]

RECURSIVE DumpHist(_)
DumpHist(h) == IF h = <<>> THEN <<>> ELSE <<TokEntry(Head(h))>> \o DumpHist(Tail(h))

RECURSIVE DumpItems(_)
DumpItems(m) ==
    IF m = <<>> THEN <<>>
    ELSE <<TokUser(Head(m).name)>> \o DumpHist(Head(m).hist) \o DumpItems(Tail(m))

\* json.dump(data, fh, indent=2, ensure_ascii=False): the text written.
JsonDump(m) == <<TokOpen>> \o DumpItems(m) \o <<TokClose>>

\* The items between the braces, read left to right. cur is the key whose
\* list is being read ("" before the first key); a repeated key restarts its
\* list (json keeps the last value of a repeated key).
RECURSIVE ParseItems(_, _, _)
ParseItems(toks, acc, cur) ==
    IF toks = <<>> THEN [ok |-> TRUE, mem |-> acc]
    ELSE LET t == Head(toks) IN
         IF t.k = "user" THEN ParseItems(Tail(toks), Set(acc, t.u, <<>>), t.u)
         ELSE IF t.k = "entry" /\ cur # ""
              THEN ParseItems(Tail(toks), Set(acc, cur, Append(Get(acc, cur), t.e)), cur)
              ELSE [ok |-> FALSE, mem |-> EmptyMem]

\* A parser that reads the items it finds and skips what it cannot read.
JsonLoadLenient(text) ==
    IF Len(text) >= 1 /\ text[1] = TokOpen
    THEN ParseItems(SelectSeq(Tail(text), LAMBDA t : t.k \in {"user", "entry"}), EmptyMem, "")
    ELSE [ok |-> FALSE, mem |-> EmptyMem]

\* json.load(fh) of a document whose root is an object: ok is FALSE where
\* json.load raises.
JsonLoad(text) ==
    IF Len(text) >= 2 /\ text[1] = TokOpen /\ text[Len(text)] = TokClose
    THEN ParseItems(SubSeq(text, 2, Len(text) - 1), EmptyMem, "")
    ELSE [ok |-> FALSE, mem |-> EmptyMem]

\* ------------------------------------------------------------- file system

NoFd == [ino |-> 0, off |-> 0]

InUse(d, f) == {d.store, d.tmp} \cup {f[p].ino : p \in Procs}

\* An inode no path and no handle refers to is gone.
Gc(d, f, dat) == [i \in InoIds |-> IF i \in InUse(d, f) THEN dat[i] ELSE <<>>]

FreshIno(d, f) == CHOOSE i \in InoIds : i \notin InUse(d, f) /\ \A j \in InoIds : j < i => j \in InUse(d, f)

\* write(2) of chunk at offset off: a gap past the end reads as NUL.
WriteAt(content, off, chunk) ==
    LET n == IF Len(content) > off + Len(chunk) THEN Len(content) ELSE off + Len(chunk)
    IN [i \in 1 .. n |->
          IF i > off /\ i <= off + Len(chunk) THEN chunk[i - off]
          ELSE IF i <= Len(content) THEN content[i]
          ELSE TokNul]

\* A Python value read from the store: the mapping, or a value of another type.
MemVal(m) == [t |-> "dict", mem |-> m]
OtherVal(t) == [t |-> t]

\* json.load(fh) of any document: the root's value; ok is FALSE where it raises.
JsonValue(text) ==
    IF Len(text) = 1 /\ text[1].k = "root"
    THEN [ok |-> TRUE, v |-> OtherVal(text[1].t)]
    ELSE LET r == JsonLoad(text) IN [ok |-> r.ok, v |-> MemVal(r.mem)]

\* len(data) raises TypeError for a value that has no length.
HasLen(v) == v.t \in {"dict", "list", "str"}

\* safe_load_json(MEMORY_FILE): {} when the file is absent, when open or read
\* raises (readFault), when json.load raises and when len(data) in the log
\* line raises; otherwise the value read, whatever its type.
SafeLoadJson(readFault) ==
    IF dir.store = 0 THEN MemVal(EmptyMem)
    ELSE IF readFault THEN MemVal(EmptyMem)
    ELSE LET r == JsonValue(data[dir.store])
         IN IF r.ok /\ HasLen(r.v) THEN r.v ELSE MemVal(EmptyMem)

\* load_memory(): a root that is no dict is replaced by {}.
LoadMemory(readFault) ==
    LET m == SafeLoadJson(readFault)
    IN IF m.t = "dict" THEN m.mem ELSE EmptyMem

\* What a load that succeeds in reading returns now.
StoreView == LoadMemory(FALSE)

\* ----------------------------------------------------------------- entries

\* datetime.isoformat() and datetime.fromisoformat(): the stored timestamp is
\* text; text that is no ISO date does not parse.
IsoFormat(t) == [fmt |-> "iso", t |-> t]
IsoParses(s) == s.fmt = "iso"
FromIsoFormat(s) == s.t

\* history[:n], the slice that keeps the oldest entries.
FirstN(h, n) == IF Len(h) <= n THEN h ELSE SubSeq(h, 1, n)

\* history[-n:]
LastN(h, n) == IF Len(h) <= n THEN h ELSE SubSeq(h, Len(h) - n + 1, Len(h))

\* ----------------------------------------------------------------- control

Idle(p) == pc[p] = "idle"

Push(p, label) == [ret EXCEPT ![p] = <<label>> \o @]

NoArg == [name |-> ""]
NoLoc == [removed |-> 0]

Init ==
    /\ dir = [store |-> 0, tmp |-> 0]
    /\ data = [i \in InoIds |-> <<>>]
    /\ fd = [p \in Procs |-> NoFd]
    /\ pc = [p \in Procs |-> "idle"]
    /\ ret = [p \in Procs |-> <<>>]
    /\ op = [p \in Procs |-> [fn |-> "none"]]
    /\ mem = [p \in Procs |-> EmptyMem]
    /\ out = [p \in Procs |-> [fn |-> "none"]]
    /\ arg = [p \in Procs |-> NoArg]
    /\ loc = [p \in Procs |-> NoLoc]
    /\ saved = [p \in Procs |-> TRUE]
    /\ clock = 1
    /\ log = <<>>
    /\ pre = [p \in Procs |-> EmptyMem]
    /\ raised = [p \in Procs |-> FALSE]
    /\ lastSaved = <<>>
    /\ TRANSFORMERS_AVAILABLE = FALSE
    /\ model = "none"
    /\ faults = [p \in Procs |-> {}]

\* A call returns to the position on top of the stack.
ReturnTo(p) ==
    /\ pc' = [pc EXCEPT ![p] = Head(ret[p])]
    /\ ret' = [ret EXCEPT ![p] = Tail(@)]

\* ------------------------------------------------ safe_write_json, by steps

\* tmp = path + ".tmp"; open(tmp, "w"): creates the staged file, or truncates
\* the one that is there. openFault: open raises.
SwOpen(p, openFault) ==
    /\ pc[p] = "sw_open"
    /\ IF openFault
       THEN /\ pc' = [pc EXCEPT ![p] = "sw_except"]
            /\ UNCHANGED <<dir, data, fd>>
       ELSE LET i == IF dir.tmp # 0 THEN dir.tmp ELSE FreshIno(dir, fd) IN
            /\ dir' = [dir EXCEPT !.tmp = i]
            /\ data' = [data EXCEPT ![i] = <<>>]
            /\ fd' = [fd EXCEPT ![p] = [ino |-> i, off |-> 0]]
            /\ pc' = [pc EXCEPT ![p] = "sw_write"]
    /\ raised' = [raised EXCEPT ![p] = openFault]
    /\ UNCHANGED <<ret, op, mem, out, arg, loc, saved, clock, log, pre, lastSaved,
                   TRANSFORMERS_AVAILABLE, model, faults>>

\* json.dump(data, fh, ...): one flush of the writer's buffer (the last one
\* is the flush on close). writeFault: the write raises.
SwWrite(p, writeFault) ==
    /\ pc[p] = "sw_write"
    /\ LET text == JsonDump(mem[p])
           off == fd[p].off
           upto == Min(off + BufTokens, Len(text))
           f2 == [fd EXCEPT ![p] = NoFd]
       IN IF writeFault
          THEN /\ fd' = f2
               /\ data' = Gc(dir, f2, data)
               /\ pc' = [pc EXCEPT ![p] = "sw_except"]
          ELSE /\ data' = [data EXCEPT ![fd[p].ino] = WriteAt(@, off, SubSeq(text, off + 1, upto))]
               /\ fd' = [fd EXCEPT ![p].off = upto]
               /\ pc' = [pc EXCEPT ![p] = IF upto = Len(text) THEN "sw_replace" ELSE "sw_write"]
    /\ raised' = [raised EXCEPT ![p] = writeFault]
    /\ UNCHANGED <<dir, ret, op, mem, out, arg, loc, saved, clock, log, pre, lastSaved,
                   TRANSFORMERS_AVAILABLE, model, faults>>

\* The with block closes fh; os.replace(tmp, path) re-points the store path to
\* the staged inode and returns True. It raises when tmp is gone, or on
\* replaceFault.
SwReplace(p, replaceFault) ==
    /\ pc[p] = "sw_replace"
    /\ LET f2 == [fd EXCEPT ![p] = NoFd] IN
       IF replaceFault \/ dir.tmp = 0
       THEN /\ fd' = f2
            /\ data' = Gc(dir, f2, data)
            /\ pc' = [pc EXCEPT ![p] = "sw_except"]
            /\ UNCHANGED <<dir, ret, saved, lastSaved>>
       ELSE LET d2 == [store |-> dir.tmp, tmp |-> 0] IN
            /\ dir' = d2
            /\ fd' = f2
            /\ data' = Gc(d2, f2, data)
            /\ saved' = [saved EXCEPT ![p] = TRUE]
            /\ lastSaved' = JsonDump(mem[p])
            /\ ReturnTo(p)
    /\ raised' = [raised EXCEPT ![p] = replaceFault \/ dir.tmp = 0]
    /\ UNCHANGED <<op, mem, out, arg, loc, clock, log, pre, TRANSFORMERS_AVAILABLE, model, faults>>

\* The handler with os.remove(path) in place of os.remove(tmp).
SwExceptRemovesStore(p) ==
    /\ pc[p] = "sw_except"
    /\ LET d2 == [dir EXCEPT !.store = 0] IN
       /\ dir' = d2
       /\ data' = Gc(d2, fd, data)
    /\ saved' = [saved EXCEPT ![p] = FALSE]
    /\ ReturnTo(p)
    /\ UNCHANGED <<fd, op, mem, out, arg, loc, clock, log, pre, raised, lastSaved,
                   TRANSFORMERS_AVAILABLE, model, faults>>

\* except Exception: remove tmp if it exists; return False.
SwExcept(p) ==
    /\ pc[p] = "sw_except"
    /\ LET d2 == [dir EXCEPT !.tmp = 0] IN
       /\ dir' = d2
       /\ data' = Gc(d2, fd, data)
    /\ saved' = [saved EXCEPT ![p] = FALSE]
    /\ ReturnTo(p)
    /\ UNCHANGED <<fd, op, mem, out, arg, loc, clock, log, pre, raised, lastSaved,
                   TRANSFORMERS_AVAILABLE, model, faults>>

\* ------------------------------------------------------ append_memory_entry

\* A caller invokes append_memory_entry(name, fortune_text, zodiac, tone, theme).
CallAppend(p, name, fortune, zodiac, tone, theme) ==
    /\ Idle(p)
    /\ op' = [op EXCEPT ![p] = [fn |-> "append"]]
    /\ arg' = [arg EXCEPT ![p] = [name |-> name, fortune |-> fortune, zodiac |-> zodiac,
                                   tone |-> tone, theme |-> theme]]
    /\ pc' = [pc EXCEPT ![p] = "am_load"]
    /\ ret' = [ret EXCEPT ![p] = <<"done">>]
    /\ pre' = [pre EXCEPT ![p] = StoreView]
    /\ UNCHANGED <<dir, data, fd, mem, out, loc, saved, clock, log, raised, lastSaved,
                   TRANSFORMERS_AVAILABLE, model, faults>>

\* mem = load_memory(); history = mem.get(name, []); entry = {...};
\* history.append(entry); mem[name] = history[-KEEP_HISTORY:]; then save_memory(mem).
AmLoad(p, readFault) ==
    /\ pc[p] = "am_load"
    /\ LET m == LoadMemory(readFault)
           a == arg[p]
           history == Get(m, a.name)
           entry == [timestamp |-> IsoFormat(clock), fortune |-> a.fortune,
                     zodiac |-> a.zodiac, tone |-> a.tone, theme |-> a.theme]
       IN /\ mem' = [mem EXCEPT ![p] = Set(m, a.name, LastN(Append(history, entry), KEEP_HISTORY))]
          /\ log' = Append(log, [name |-> a.name, entry |-> entry])
    /\ faults' = [faults EXCEPT ![p] =
                     IF dir.store # 0 /\ (readFault \/ ~JsonLoad(data[dir.store]).ok)
                     THEN @ \cup {"load"} ELSE @]
    /\ clock' = clock + 1
    /\ pc' = [pc EXCEPT ![p] = "sw_open"]
    /\ ret' = Push(p, "am_ret")
    /\ UNCHANGED <<dir, data, fd, op, out, arg, loc, saved, pre, raised, lastSaved,
                   TRANSFORMERS_AVAILABLE, model>>

\* save_memory returned; its result is dropped and append returns None.
AmRet(p) ==
    /\ pc[p] = "am_ret"
    /\ faults' = [faults EXCEPT ![p] = IF saved[p] THEN @ ELSE @ \cup {"save"}]
    /\ ReturnTo(p)
    /\ UNCHANGED <<dir, data, fd, op, mem, out, arg, loc, saved, clock, log, pre, raised,
                   lastSaved, TRANSFORMERS_AVAILABLE, model>>

\* The top-level call has returned; the caller goes on.
Return(p) ==
    /\ pc[p] = "done"
    /\ pc' = [pc EXCEPT ![p] = "idle"]
    /\ op' = [op EXCEPT ![p] = [fn |-> "none"]]
    /\ mem' = [mem EXCEPT ![p] = EmptyMem]
    /\ out' = [out EXCEPT ![p] = [fn |-> "none"]]
    /\ arg' = [arg EXCEPT ![p] = NoArg]
    /\ loc' = [loc EXCEPT ![p] = NoLoc]
    /\ saved' = [saved EXCEPT ![p] = TRUE]
    /\ pre' = [pre EXCEPT ![p] = EmptyMem]
    /\ raised' = [raised EXCEPT ![p] = FALSE]
    /\ faults' = [faults EXCEPT ![p] = {}]
    /\ UNCHANGED <<dir, data, fd, ret, clock, log, lastSaved, TRANSFORMERS_AVAILABLE, model>>

\* --------------------------------------------------- purge_memory_older_than

\* The comparison with > in place of >=.
KeepsLater(h, cutoff) == FromIsoFormat(h.timestamp) > cutoff

\* datetime.fromisoformat(h.get("timestamp")) >= cutoff
Keeps(h, cutoff) == FromIsoFormat(h.timestamp) >= cutoff

\* mem[name] = newhist, whether newhist is empty or not.
PutAlways(m, name, newhist) == Set(m, name, newhist)

\* if newhist: mem[name] = newhist  else: del mem[name]
PutOrDrop(m, name, newhist) == IF newhist # <<>> THEN Set(m, name, newhist) ELSE Del(m, name)

\* for name in list(mem.keys()): ... ; raised where fromisoformat raises.
RECURSIVE PurgeLoop(_, _, _, _)
PurgeLoop(names, m, cutoff, removed) ==
    IF names = <<>> THEN [raised |-> FALSE, mem |-> m, removed |-> removed]
    ELSE LET name == Head(names)
             hist == Get(m, name)
         IN IF \E i \in 1 .. Len(hist) : ~IsoParses(hist[i].timestamp)
            THEN [raised |-> TRUE, mem |-> m, removed |-> removed]
            ELSE LET newhist == SelectSeq(hist, LAMBDA h : Keeps(h, cutoff))
                 IN PurgeLoop(Tail(names), PutOrDrop(m, name, newhist), cutoff,
                              removed + (Len(hist) - Len(newhist)))

KeyList(m) == [i \in 1 .. Len(m) |-> m[i].name]

\* timedelta(days=days), in ticks of the clock.
TimeDelta(days) == days * TicksPerDay

\* A caller invokes purge_memory_older_than(days).
CallPurge(p, days) ==
    /\ Idle(p)
    /\ op' = [op EXCEPT ![p] = [fn |-> "purge", days |-> days]]
    /\ pc' = [pc EXCEPT ![p] = "pg_load"]
    /\ ret' = [ret EXCEPT ![p] = <<"done">>]
    /\ pre' = [pre EXCEPT ![p] = StoreView]
    /\ UNCHANGED <<dir, data, fd, mem, out, arg, loc, saved, clock, log, raised, lastSaved,
                   TRANSFORMERS_AVAILABLE, model, faults>>

\* mem = load_memory(); cutoff = now - timedelta(days); the loop; then
\* save_memory(mem). An exception in the loop ends the call with 0.
PgLoad(p, readFault) ==
    /\ pc[p] = "pg_load"
    /\ LET m == LoadMemory(readFault)
           cutoff == clock - TimeDelta(op[p].days)
           r == PurgeLoop(KeyList(m), m, cutoff, 0)
       IN IF r.raised
          THEN /\ out' = [out EXCEPT ![p] = [fn |-> "purge", removed |-> 0]]
               /\ pc' = [pc EXCEPT ![p] = "done"]
               /\ ret' = [ret EXCEPT ![p] = <<>>]
               /\ loc' = [loc EXCEPT ![p] = [removed |-> 0, cutoff |-> cutoff]]
               /\ UNCHANGED mem
          ELSE /\ mem' = [mem EXCEPT ![p] = r.mem]
               /\ loc' = [loc EXCEPT ![p] = [removed |-> r.removed, cutoff |-> cutoff]]
               /\ pc' = [pc EXCEPT ![p] = "sw_open"]
               /\ ret' = Push(p, "pg_ret")
               /\ UNCHANGED out
    /\ clock' = clock + 1
    /\ UNCHANGED <<dir, data, fd, op, arg, saved, log, pre, raised, lastSaved,
                   TRANSFORMERS_AVAILABLE, model, faults>>

\* save_memory returned; return removed.
PgRet(p) ==
    /\ pc[p] = "pg_ret"
    /\ out' = [out EXCEPT ![p] = [fn |-> "purge", removed |-> loc[p].removed]]
    /\ ReturnTo(p)
    /\ UNCHANGED <<dir, data, fd, op, mem, arg, loc, saved, clock, log, pre, raised, lastSaved,
                   TRANSFORMERS_AVAILABLE, model, faults>>

\* ------------------------------------------------------------- environment

\* A day goes by.
PassDay ==
    /\ clock + TicksPerDay <= MaxClock
    /\ clock' = clock + TicksPerDay
    /\ UNCHANGED <<dir, data, fd, pc, ret, op, mem, out, arg, loc, saved, log, pre, raised,
                   lastSaved, TRANSFORMERS_AVAILABLE, model, faults>>

\* The process dies where it stands: its handle is closed, nothing is undone.
Crash(p) ==
    /\ pc[p] \notin {"idle", "done", "crashed"}
    /\ pc' = [pc EXCEPT ![p] = "crashed"]
    /\ ret' = [ret EXCEPT ![p] = <<>>]
    /\ LET f2 == [fd EXCEPT ![p] = NoFd] IN
       /\ fd' = f2
       /\ data' = Gc(dir, f2, data)
    /\ out' = [out EXCEPT ![p] = [fn |-> "crash", at |-> pc[p]]]
    /\ UNCHANGED <<dir, op, mem, arg, loc, saved, clock, log, pre, raised, lastSaved,
                   TRANSFORMERS_AVAILABLE, model, faults>>

\* The application is started again.
Restart(p) ==
    /\ pc[p] = "crashed"
    /\ pc' = [pc EXCEPT ![p] = "idle"]
    /\ op' = [op EXCEPT ![p] = [fn |-> "none"]]
    /\ mem' = [mem EXCEPT ![p] = EmptyMem]
    /\ out' = [out EXCEPT ![p] = [fn |-> "none"]]
    /\ arg' = [arg EXCEPT ![p] = NoArg]
    /\ loc' = [loc EXCEPT ![p] = NoLoc]
    /\ saved' = [saved EXCEPT ![p] = TRUE]
    /\ pre' = [pre EXCEPT ![p] = EmptyMem]
    /\ raised' = [raised EXCEPT ![p] = FALSE]
    /\ faults' = [faults EXCEPT ![p] = {}]
    /\ UNCHANGED <<dir, data, fd, ret, clock, log, lastSaved, TRANSFORMERS_AVAILABLE, model>>

\* load_memory() by a reader (get_user_history, summarize_user_history).
Load(p, readFault) ==
    /\ Idle(p)
    /\ op' = [op EXCEPT ![p] = [fn |-> "load", readFault |-> readFault]]
    /\ out' = [out EXCEPT ![p] = [fn |-> "load", mem |-> LoadMemory(readFault)]]
    /\ pre' = [pre EXCEPT ![p] = StoreView]
    /\ pc' = [pc EXCEPT ![p] = "done"]
    /\ UNCHANGED <<dir, data, fd, ret, mem, arg, loc, saved, clock, log, raised, lastSaved,
                   TRANSFORMERS_AVAILABLE, model, faults>>

\* -------------------------------------------------------------------- text
\* A str is a sequence of characters.

WhiteSpace == {" ", "\n", "\t"}

UpperCase == <<"A", "B", "C", "D", "E", "F", "G", "H", "I", "J", "K", "L", "M",
               "N", "O", "P", "Q", "R", "S", "T", "U", "V", "W", "X", "Y", "Z">>
LowerCase == <<"a", "b", "c", "d", "e", "f", "g", "h", "i", "j", "k", "l", "m",
               "n", "o", "p", "q", "r", "s", "t", "u", "v", "w", "x", "y", "z">>

IsUpper(c) == \E i \in 1 .. Len(UpperCase) : UpperCase[i] = c
IsLower(c) == \E i \in 1 .. Len(LowerCase) : LowerCase[i] = c

LowerChar(c) == IF IsUpper(c) THEN LowerCase[CHOOSE i \in 1 .. Len(UpperCase) : UpperCase[i] = c] ELSE c
UpperChar(c) == IF IsLower(c) THEN UpperCase[CHOOSE i \in 1 .. Len(LowerCase) : LowerCase[i] = c] ELSE c

\* str.lower()
Lower(s) == SubSeq([i \in 1 .. Len(s) |-> LowerChar(s[i])], 1, Len(s))

\* str.title(): a letter that follows no letter is made upper case, the
\* other letters lower case.
Title(s) ==
    SubSeq([i \in 1 .. Len(s) |->
               IF i = 1 \/ ~(IsUpper(s[i - 1]) \/ IsLower(s[i - 1]))
               THEN UpperChar(s[i]) ELSE LowerChar(s[i])], 1, Len(s))

SetMin(S) == CHOOSE x \in S : \A y \in S : x <= y
SetMax(S) == CHOOSE x \in S : \A y \in S : x >= y

\* str.strip()
Strip(s) ==
    IF \A i \in 1 .. Len(s) : s[i] \in WhiteSpace THEN <<>>
    ELSE SubSeq(s,
                CHOOSE i \in 1 .. Len(s) :
                    s[i] \notin WhiteSpace /\ \A j \in 1 .. (i - 1) : s[j] \in WhiteSpace,
                CHOOSE i \in 1 .. Len(s) :
                    s[i] \notin WhiteSpace /\ \A j \in (i + 1) .. Len(s) : s[j] \in WhiteSpace)

\* The pieces of s between the characters of seps, empty pieces included.
SplitOn(s, seps) ==
    LET at == {i \in 1 .. Len(s) : s[i] \in seps}
        n == Cardinality(at)
        pos(k) == IF k = 0 THEN 0
                  ELSE IF k = n + 1 THEN Len(s) + 1
                  ELSE CHOOSE i \in at : Cardinality({j \in at : j <= i}) = k
    IN [k \in 1 .. (n + 1) |-> SubSeq(s, pos(k - 1) + 1, pos(k) - 1)]

\* str.split(sep), sep one character
Split(s, sep) == SplitOn(s, {sep})

\* str.split(): the runs of characters between white space
Words(s) == SelectSeq(SplitOn(s, WhiteSpace), LAMBDA w : w # <<>>)

\* sub occurs in s at position i
MatchAt(s, sub, i) == i + Len(sub) - 1 <= Len(s) /\ \A j \in 1 .. Len(sub) : s[i + j - 1] = sub[j]

\* sub in s
Contains(s, sub) ==
    \/ sub = <<>>
    \/ \E i \in 1 .. (Len(s) - Len(sub) + 1) : s[i] = sub[1] /\ MatchAt(s, sub, i)

\* str.count(sub), from position i on: occurrences that do not overlap, left
\* to right; the empty str occurs between any two characters.
RECURSIVE CountFrom(_, _, _)
CountFrom(s, sub, i) ==
    IF sub = <<>> THEN Len(s) + 2 - i
    ELSE LET found == {k \in i .. (Len(s) - Len(sub) + 1) : s[k] = sub[1] /\ MatchAt(s, sub, k)}
         IN IF found = {} THEN 0 ELSE 1 + CountFrom(s, sub, SetMin(found) + Len(sub))

StrCount(s, sub) == CountFrom(s, sub, 1)

\* s.rsplit(" ", 1)[0]: s up to its last space, s itself when it has none
BeforeLastSpace(s) ==
    LET at == {i \in 1 .. Len(s) : s[i] = " "}
    IN IF at = {} THEN s ELSE SubSeq(s, 1, SetMax(at) - 1)

\* max(Counter(words).values()), 0 for no word
MostCommonCount(words) ==
    IF words = <<>> THEN 0
    ELSE LET n(i) == Cardinality({j \in 1 .. Len(words) : words[j] = words[i]})
         IN n(CHOOSE i \in 1 .. Len(words) : \A k \in 1 .. Len(words) : n(i) >= n(k))

\* The rule with a word in 60% of the words counted as junk.
RepetitiveFrom(words) == Len(words) > 5 /\ 10 * MostCommonCount(words) >= 6 * Len(words)

\* len(words) > 5 and most_common_count > len(words) * 0.6: for the lengths
\* a text can have, c > n * 0.6 in floating point is 10 c > 6 n.
Repetitive(words) == Len(words) > 5 /\ 10 * MostCommonCount(words) > 6 * Len(words)

\* ------------------------------------------------------------- vocabulary

\* VOCAB["themes"], in the order of the source.
Themes == <<
    "reflection", "destiny", "memory", "light", "shadow", "echo", "flux", "grace", "illusion",
    "time", "horizon", "truth", "dream", "origin", "stillness", "threshold", "tide",
    "constellation", "pulse", "garden"
    >>

\* A name of 4000 letters: sanitize_name and generate_fortune take a name of
\* any length.
LongName == [i \in 1 .. 4000 |-> "a"]

\* The characters of the strings the model names as a whole: the themes, the
\* user names, the signs, the trait names and the birthdates.
Chars ==
       "aaaa" :> LongName
    @@ "reflection" :> <<"r", "e", "f", "l", "e", "c", "t", "i", "o", "n">>
    @@ "destiny" :> <<"d", "e", "s", "t", "i", "n", "y">>
    @@ "memory" :> <<"m", "e", "m", "o", "r", "y">>
    @@ "light" :> <<"l", "i", "g", "h", "t">>
    @@ "shadow" :> <<"s", "h", "a", "d", "o", "w">>
    @@ "echo" :> <<"e", "c", "h", "o">>
    @@ "flux" :> <<"f", "l", "u", "x">>
    @@ "grace" :> <<"g", "r", "a", "c", "e">>
    @@ "illusion" :> <<"i", "l", "l", "u", "s", "i", "o", "n">>
    @@ "time" :> <<"t", "i", "m", "e">>
    @@ "horizon" :> <<"h", "o", "r", "i", "z", "o", "n">>
    @@ "truth" :> <<"t", "r", "u", "t", "h">>
    @@ "dream" :> <<"d", "r", "e", "a", "m">>
    @@ "origin" :> <<"o", "r", "i", "g", "i", "n">>
    @@ "stillness" :> <<"s", "t", "i", "l", "l", "n", "e", "s", "s">>
    @@ "threshold" :> <<"t", "h", "r", "e", "s", "h", "o", "l", "d">>
    @@ "tide" :> <<"t", "i", "d", "e">>
    @@ "constellation" :> <<"c", "o", "n", "s", "t", "e", "l", "l", "a", "t", "i", "o", "n">>
    @@ "pulse" :> <<"p", "u", "l", "s", "e">>
    @@ "garden" :> <<"g", "a", "r", "d", "e", "n">>
    @@ "ada" :> <<"a", "d", "a">>
    @@ "bob" :> <<"b", "o", "b">>
    @@ "Wanderer" :> <<"W", "a", "n", "d", "e", "r", "e", "r">>
    @@ "Aquarius" :> <<"A", "q", "u", "a", "r", "i", "u", "s">>
    @@ "Pisces" :> <<"P", "i", "s", "c", "e", "s">>
    @@ "Aries" :> <<"A", "r", "i", "e", "s">>
    @@ "Taurus" :> <<"T", "a", "u", "r", "u", "s">>
    @@ "Gemini" :> <<"G", "e", "m", "i", "n", "i">>
    @@ "Cancer" :> <<"C", "a", "n", "c", "e", "r">>
    @@ "Leo" :> <<"L", "e", "o">>
    @@ "Virgo" :> <<"V", "i", "r", "g", "o">>
    @@ "Libra" :> <<"L", "i", "b", "r", "a">>
    @@ "Scorpio" :> <<"S", "c", "o", "r", "p", "i", "o">>
    @@ "Sagittarius" :> <<"S", "a", "g", "i", "t", "t", "a", "r", "i", "u", "s">>
    @@ "Capricorn" :> <<"C", "a", "p", "r", "i", "c", "o", "r", "n">>
    @@ "Unknown" :> <<"U", "n", "k", "n", "o", "w", "n">>
    @@ "courage" :> <<"c", "o", "u", "r", "a", "g", "e">>
    @@ "calm" :> <<"c", "a", "l", "m">>
    @@ "unknown" :> <<"u", "n", "k", "n", "o", "w", "n">>
    @@ "quiet" :> <<"q", "u", "i", "e", "t">>
    @@ "1900-01-01" :> <<"1", "9", "0", "0", "-", "0", "1", "-", "0", "1">>
    @@ "1990-04-05" :> <<"1", "9", "9", "0", "-", "0", "4", "-", "0", "5">>
    @@ "1990-13-40" :> <<"1", "9", "9", "0", "-", "1", "3", "-", "4", "0">>
    @@ "04/05/1990" :> <<"0", "4", "/", "0", "5", "/", "1", "9", "9", "0">>

\* VOCAB["adjectives"].
Adjectives == <<
    <<"c", "e", "l", "e", "s", "t", "i", "a", "l">>,
    <<"v", "e", "l", "v", "e", "t">>,
    <<"h", "a", "u", "n", "t", "i", "n", "g">>,
    <<"l", "u", "m", "i", "n", "o", "u", "s">>,
    <<"a", "s", "h", "e", "n">>,
    <<"r", "e", "s", "o", "n", "a", "n", "t">>,
    <<"a", "n", "c", "i", "e", "n", "t">>,
    <<"r", "a", "d", "i", "a", "n", "t">>,
    <<"f", "o", "r", "g", "o", "t", "t", "e", "n">>,
    <<"o", "p", "a", "l", "e", "s", "c", "e", "n", "t">>,
    <<"g", "i", "l", "d", "e", "d">>,
    <<"n", "o", "c", "t", "u", "r", "n", "a", "l">>,
    <<"t", "r", "a", "n", "s", "c", "e", "n", "d", "e", "n", "t">>,
    <<"s", "e", "r", "p", "e", "n", "t", "i", "n", "e">>,
    <<"q", "u", "i", "e", "t">>
    >>

\* VOCAB["omens"].
Omens == <<
    <<"a", " ", "b", "i", "r", "d", "'", "s", " ", "w", "i", "n", "g", " ", "c", "a", "u", "g",
        "h", "t", " ", "i", "n", " ", "t", "h", "e", " ", "c", "u", "r", "r", "e", "n", "t", " ",
        "o", "f", " ", "m", "o", "r", "n", "i", "n", "g">>,
    <<"t", "h", "e", " ", "s", "c", "e", "n", "t", " ", "o", "f", " ", "r", "a", "i", "n", " ",
        "o", "n", " ", "a", "n", "c", "i", "e", "n", "t", " ", "s", "t", "o", "n", "e">>,
    <<"a", " ", "l", "a", "u", "g", "h", " ", "f", "r", "o", "m", " ", "a", " ", "s", "t", "r",
        "a", "n", "g", "e", "r", " ", "w", "h", "o", " ", "k", "n", "o", "w", "s", " ", "y", "o",
        "u", "r", " ", "s", "e", "c", "r", "e", "t">>,
    <<"a", " ", "f", "o", "l", "d", "e", "d", " ", "n", "o", "t", "e", " ", "y", "o", "u", "'",
        "v", "e", " ", "n", "o", "t", " ", "y", "e", "t", " ", "f", "o", "u", "n", "d">>,
    <<"a", " ", "g", "l", "i", "n", "t", " ", "t", "h", "a", "t", " ", "i", "s", "n", "'", "t",
        " ", "y", "o", "u", "r", "s">>
    >>

\* VOCAB["tones"]["bright"].
TonesBright == <<
    <<"A", " ", "g", "o", "l", "d", "e", "n", " ", "l", "i", "g", "h", "t", " ", "c", "r", "o",
        "w", "n", "s", " ", "y", "o", "u", "r", " ", "c", "h", "o", "i", "c", "e", "s", " ", "t",
        "o", "d", "a", "y", ".">>,
    <<"T", "h", "e", " ", "m", "i", "r", "r", "o", "r", " ", "s", "m", "i", "l", "e", "s", " ",
        "u", "p", "o", "n", " ", "t", "h", "i", "s", " ", "t", "u", "r", "n", "i", "n", "g", " ",
        "o", "f", " ", "t", "h", "e", " ", "p", "a", "g", "e", ".">>,
    <<"N", "e", "w", " ", "p", "a", "t", "h", "s", " ", "u", "n", "f", "o", "l", "d", " ", "j",
        "u", "s", "t", " ", "b", "e", "y", "o", "n", "d", " ", "y", "o", "u", "r", " ", "s", "t",
        "e", "a", "d", "y", " ", "s", "t", "e", "p", ".">>
    >>

\* VOCAB["tones"]["neutral"].
TonesNeutral == <<
    <<"B", "a", "l", "a", "n", "c", "e", " ", "l", "i", "n", "g", "e", "r", "s", " ", "a", "t",
        " ", "t", "h", "e", " ", "g", "l", "a", "s", "s", ";", " ", "t", "a", "k", "e", " ", "a",
        "n", "o", "t", "h", "e", "r", " ", "b", "r", "e", "a", "t", "h", ".">>,
    <<"A", " ", "q", "u", "i", "e", "t", " ", "c", "l", "a", "r", "i", "t", "y", " ", "r", "i",
        "p", "p", "l", "e", "s", " ", "b", "e", "n", "e", "a", "t", "h", " ", "y", "o", "u", "r",
        " ", "s", "u", "r", "f", "a", "c", "e", ".">>,
    <<"C", "o", "n", "s", "i", "d", "e", "r", " ", "t", "h", "e", " ", "s", "p", "a", "c", "e",
        " ", "b", "e", "t", "w", "e", "e", "n", " ", "i", "n", "t", "e", "n", "t", " ", "a", "n",
        "d", " ", "a", "c", "t", "i", "o", "n", ".">>
    >>

\* VOCAB["tones"]["dark"].
TonesDark == <<
    <<"S", "h", "a", "d", "o", "w", "s", " ", "s", "t", "i", "r", " ", "w", "h", "e", "r", "e",
        " ", "t", "h", "e", " ", "m", "i", "r", "r", "o", "r", " ", "d", "o", "e", "s", " ", "n",
        "o", "t", " ", "r", "e", "a", "c", "h", ".">>,
    <<"A", " ", "h", "u", "s", "h", " ", "w", "a", "r", "n", "s", ":", " ", "n", "o", "t", " ",
        "a", "l", "l", " ", "r", "e", "f", "l", "e", "c", "t", "i", "o", "n", "s", " ", "a", "r",
        "e", " ", "t", "r", "u", "t", "h", ".">>,
    <<"T", "r", "e", "a", "d", " ", "w", "i", "t", "h", " ", "c", "u", "r", "i", "o", "s", "i",
        "t", "y", " ", "a", "n", "d", " ", "m", "e", "a", "s", "u", "r", "e", "d", " ", "c", "a",
        "u", "t", "i", "o", "n", " ", "t", "o", "n", "i", "g", "h", "t", ".">>
    >>

\* hints of astrology_hint.
Hints ==
       "Fire" :> <<"y", "o", "u", "r", " ", "p", "a", "s", "s", "i", "o", "n", " ", "l", "i",
        "g", "h", "t", "s", " ", "h", "i", "d", "d", "e", "n", " ", "c", "r", "o", "s", "s", "r",
        "o", "a", "d", "s", ".">>
    @@ "Water" :> <<"y", "o", "u", "r", " ", "i", "n", "t", "u", "i", "t", "i", "o", "n", " ",
        "e", "c", "h", "o", "e", "s", " ", "i", "n", " ", "q", "u", "i", "e", "t", " ", "p", "o",
        "o", "l", "s", ".">>
    @@ "Air" :> <<"y", "o", "u", "r", " ", "t", "h", "o", "u", "g", "h", "t", "s", " ", "d", "r",
        "i", "f", "t", " ", "t", "o", "w", "a", "r", "d", " ", "n", "e", "w", " ", "h", "o", "r",
        "i", "z", "o", "n", "s", ".">>
    @@ "Earth" :> <<"y", "o", "u", "r", " ", "s", "t", "e", "p", "s", " ", "r", "o", "o", "t",
        " ", "c", "h", "a", "n", "g", "e", " ", "i", "n", "t", "o", " ", "p", "r", "a", "c", "t",
        "i", "c", "e", ".">>
    @@ "Void" :> <<"t", "h", "e", " ", "c", "o", "s", "m", "o", "s", " ", "w", "a", "t", "c",
        "h", "e", "s", " ", "w", "i", "t", "h", "o", "u", "t", " ", "s", "h", "a", "p", "e", ".">>

\* The placeholder sentence of generate_fortune.
Placeholder ==
    <<"T", "h", "e", " ", "m", "i", "r", "r", "o", "r", " ", "i", "s", " ", "q", "u", "i", "e",
        "t", " ", "r", "i", "g", "h", "t", " ", "n", "o", "w", ".", " ", "T", "r", "y", " ", "a",
        "g", "a", "i", "n", " ", "i", "n", " ", "a", " ", "l", "i", "t", "t", "l", "e", " ", "w",
        "h", "i", "l", "e", ".">>

\* bad_markers of _is_valid.
BadMarkers == <<
    <<"u", "n", "k", "n", "o", "w", "n", " ", "(", "e", "l", "e", "m", "e", "n", "t", ":", " ",
        "v", "o", "i", "d", ")">>,
    <<"f", "o", "r", "t", "u", "n", "e", ":", " ", "u", "n", "k", "n", "o", "w", "n", " ", "(",
        "e", "l", "e", "m", "e", "n", "t", ":", " ", "v", "o", "i", "d", ")">>,
    <<"t", "h", "e", " ", "m", "i", "r", "r", "o", "r", " ", "i", "s", " ", "s", "i", "l", "e",
        "n", "t">>
    >>

\* The pieces of the f-string of rule_based_fortune. A character outside ASCII
\* is written "*".
LitTitle ==
    <<"*", "*", "*", "*", " ", "M", "i", "r", "r", "o", "r", " ", "o", "f", " ">>

LitDash ==
    <<" ", "*", "*", "*", " ">>

LitThe ==
    <<",", " ", "t", "h", "e", " ">>

LitChildOf ==
    <<" ", "c", "h", "i", "l", "d", " ", "o", "f", " ">>

LitYour ==
    <<"Y", "o", "u", "r", " ">>

LitStirs ==
    <<" ", "s", "t", "i", "r", "s", " ", "t", "h", "e", " ", "c", "u", "r", "r", "e", "n", "t",
        " ", "o", "f", " ">>

LitAnd ==
    <<",", " ", "a", "n", "d", " ">>

LitAs ==
    <<"A", "s", " ">>

LitPasses ==
    <<" ", "p", "a", "s", "s", "e", "s", ",", " ", "l", "i", "s", "t", "e", "n", " ", "f", "o",
        "r", " ", "t", "h", "e", " ", "q", "u", "i", "e", "t", " ", "n", "e", "x", "t", " ", "s",
        "t", "e", "p", ".", "\n", "\n">>

LitMay ==
    <<"M", "a", "y", " ", "y", "o", "u", "r", " ", "r", "e", "f", "l", "e", "c", "t", "i", "o",
        "n", " ", "r", "e", "v", "e", "a", "l", " ", "w", "h", "a", "t", " ", "y", "o", "u", "r",
        " ", "e", "y", "e", "s", " ", "d", "o", " ", "n", "o", "t", ".">>

LitRemembers ==
    <<"T", "h", "e", " ", "m", "i", "r", "r", "o", "r", " ", "r", "e", "m", "e", "m", "b", "e",
        "r", "s", " ", "a", " ", "p", "a", "s", "t", " ", "t", "h", "e", "m", "e", " ", "o", "f",
        " ", "'">>

LitQuoteDot ==
    <<"'", ".">>

\* --------------------------------------------- clean_generated_text, _is_valid

\* The length cap of clean_generated_text.
LengthCap == 400

Ellipsis == <<".", ".", ".">>

\* The branch taken for the first of ".", "?", "!" that occurs in t:
\* parts = [p.strip() for p in t.split(sep) if p.strip()]; two parts or more
\* give the first two, one part gives it, no part makes parts[0] raise.
FirstSentences(t, sep) ==
    LET pieces == Split(t, sep)
        stripped == [i \in 1 .. Len(pieces) |-> Strip(pieces[i])]
        parts == SelectSeq(stripped, LAMBDA q : q # <<>>)
    IN IF Len(parts) >= 2
       THEN [raised |-> FALSE, s |-> Strip(parts[1] \o <<sep, " ">> \o parts[2] \o <<sep>>)]
       ELSE IF Len(parts) = 1
            THEN [raised |-> FALSE, s |-> Strip(parts[1] \o <<sep>>)]
            ELSE [raised |-> TRUE, s |-> <<>>]

\* clean_generated_text(text); raised where it raises IndexError.
CleanGeneratedText(text) ==
    LET t == Strip(text) IN
    IF t = <<>> THEN [raised |-> FALSE, s |-> t]
    ELSE IF Repetitive(Words(t)) THEN [raised |-> FALSE, s |-> <<>>]
    ELSE IF Contains(t, <<".">>) THEN FirstSentences(t, ".")
    ELSE IF Contains(t, <<"?">>) THEN FirstSentences(t, "?")
    ELSE IF Contains(t, <<"!">>) THEN FirstSentences(t, "!")
    ELSE [raised |-> FALSE,
          s |-> IF Len(t) <= LengthCap THEN t
                ELSE BeforeLastSpace(SubSeq(t, 1, LengthCap)) \o Ellipsis]

\* The least length _is_valid and generate_ml_fortune accept.
MinGenLen == 10

\* A validity check that does not look for the bad markers.
IsValidAnyMarker(text) ==
    LET t == Strip(text)
    IN /\ text # <<>>
       /\ Len(t) >= MinGenLen
       /\ ~Repetitive(Words(t))

\* _is_valid(text) of generate_fortune, for a str.
IsValid(text) ==
    LET t == Strip(text)
        low == Lower(t)
    IN /\ text # <<>>
       /\ Len(t) >= MinGenLen
       /\ \A i \in 1 .. Len(BadMarkers) : ~Contains(low, BadMarkers[i])
       /\ ~Repetitive(Words(t))

\* ----------------------------------------------------- guess_theme_from_text

\* counts[t] for the themes from the i-th on, in the order of the vocabulary.
RECURSIVE ThemeCounts(_, _)
ThemeCounts(low, i) ==
    IF i > Len(Themes) THEN <<>>
    ELSE <<StrCount(low, Chars[Themes[i]])>> \o ThemeCounts(low, i + 1)

\* The guess with the last of the tied themes on top.
GuessThemeFromTextLast(text, choice) ==
    LET counts == ThemeCounts(Lower(text), 1)
        top == CHOOSE i \in 1 .. Len(Themes) :
                   \A j \in 1 .. Len(Themes) : counts[i] > counts[j] \/ (counts[i] = counts[j] /\ i >= j)
    IN IF counts[top] > 0 THEN Themes[top] ELSE choice

\* guess_theme_from_text(text): sorted(..., reverse=True) is stable, so of the
\* themes with the highest count the first of the vocabulary is on top;
\* choice is what random.choice returns when every count is 0.
GuessThemeFromText(text, choice) ==
    LET counts == ThemeCounts(Lower(text), 1)
        top == CHOOSE i \in 1 .. Len(Themes) :
                   \A j \in 1 .. Len(Themes) : counts[i] > counts[j] \/ (counts[i] = counts[j] /\ i <= j)
    IN IF counts[top] > 0 THEN Themes[top] ELSE choice

\* ------------------------------------------------------ values of user_data
\* A str is named as a whole and has its characters in Chars; a dict is a
\* sequence of [k, v] in insertion order, keys distinct.

StrVal(a) == [t |-> "str", a |-> a]
IntVal(n) == [t |-> "int", v |-> n]
DictVal(items) == [t |-> "dict", items |-> items]
ListVal == [t |-> "list"]
NoneVal == [t |-> "none"]

\* A str given by its characters, and the characters of either kind of str.
TextVal(s) == [t |-> "str", s |-> s]
CharsOf(v) == IF "a" \in DOMAIN v THEN Chars[v.a] ELSE v.s

\* d.get(key, default), d a dict
DictGet(d, key, default) ==
    IF \E i \in 1 .. Len(d.items) : d.items[i].k = key
    THEN d.items[CHOOSE i \in 1 .. Len(d.items) : d.items[i].k = key].v
    ELSE default

\* bool(v); the list of the model has elements.
Truthy(v) ==
    IF v.t = "none" THEN FALSE
    ELSE IF v.t = "dict" THEN v.items # <<>>
    ELSE IF v.t = "str" THEN CharsOf(v) # <<>>
    ELSE IF v.t = "int" THEN v.v # 0
    ELSE TRUE

\* hash(v) does not raise
Hashable(v) == v.t \in {"str", "int", "none"}

Digits == <<"0", "1", "2", "3", "4", "5", "6", "7", "8", "9">>

IsDigit(c) == \E i \in 1 .. Len(Digits) : Digits[i] = c
DigitVal(c) == (CHOOSE i \in 1 .. Len(Digits) : Digits[i] = c) - 1

RECURSIVE DigitsVal(_, _)
DigitsVal(s, acc) == IF s = <<>> THEN acc ELSE DigitsVal(Tail(s), 10 * acc + DigitVal(Head(s)))

\* int(s), s a str: white space around, one sign, then digits; ok is FALSE
\* where int raises ValueError.
ParseInt(s) ==
    LET t == Strip(s)
        signed == t # <<>> /\ t[1] \in {"+", "-"}
        ds == IF signed THEN Tail(t) ELSE t
    IN IF ds # <<>> /\ \A i \in 1 .. Len(ds) : IsDigit(ds[i])
       THEN [ok |-> TRUE, v |-> IF signed /\ t[1] = "-" THEN 0 - DigitsVal(ds, 0) ELSE DigitsVal(ds, 0)]
       ELSE [ok |-> FALSE, v |-> 0]

\* ----------------------------------------------------------- analyze_zodiac

\* signs of analyze_zodiac, in the order of the source.
Signs == <<
    [m1 |-> 1, d1 |-> 20, m2 |-> 2, d2 |-> 18, sign |-> "Aquarius", element |-> "Air"],
    [m1 |-> 2, d1 |-> 19, m2 |-> 3, d2 |-> 20, sign |-> "Pisces", element |-> "Water"],
    [m1 |-> 3, d1 |-> 21, m2 |-> 4, d2 |-> 19, sign |-> "Aries", element |-> "Fire"],
    [m1 |-> 4, d1 |-> 20, m2 |-> 5, d2 |-> 20, sign |-> "Taurus", element |-> "Earth"],
    [m1 |-> 5, d1 |-> 21, m2 |-> 6, d2 |-> 20, sign |-> "Gemini", element |-> "Air"],
    [m1 |-> 6, d1 |-> 21, m2 |-> 7, d2 |-> 22, sign |-> "Cancer", element |-> "Water"],
    [m1 |-> 7, d1 |-> 23, m2 |-> 8, d2 |-> 22, sign |-> "Leo", element |-> "Fire"],
    [m1 |-> 8, d1 |-> 23, m2 |-> 9, d2 |-> 22, sign |-> "Virgo", element |-> "Earth"],
    [m1 |-> 9, d1 |-> 23, m2 |-> 10, d2 |-> 22, sign |-> "Libra", element |-> "Air"],
    [m1 |-> 10, d1 |-> 23, m2 |-> 11, d2 |-> 21, sign |-> "Scorpio", element |-> "Water"],
    [m1 |-> 11, d1 |-> 22, m2 |-> 12, d2 |-> 21, sign |-> "Sagittarius", element |-> "Fire"],
    [m1 |-> 12, d1 |-> 22, m2 |-> 1, d2 |-> 19, sign |-> "Capricorn", element |-> "Earth"]
    >>

UnknownSign == [sign |-> "Unknown", element |-> "Void"]

\* The range test with the first day of each sign left out.
InSignAfter(r, month, day) == (month = r.m1 /\ day > r.d1) \/ (month = r.m2 /\ day <= r.d2)

\* (month == m1 and day >= d1) or (month == m2 and day <= d2)
InSign(r, month, day) == (month = r.m1 /\ day >= r.d1) \/ (month = r.m2 /\ day <= r.d2)

\* analyze_zodiac(birthdate): a value that is no str has no split, which the
\* except clause answers like a date that does not parse.
AnalyzeZodiac(birthdate) ==
    IF birthdate.t # "str" THEN UnknownSign
    ELSE LET parts == Split(CharsOf(birthdate), "-") IN
         IF Len(parts) < 3 THEN UnknownSign
         ELSE LET month == ParseInt(parts[2])
                  day == ParseInt(parts[3])
              IN IF ~month.ok \/ ~day.ok THEN UnknownSign
                 ELSE IF \E i \in 1 .. Len(Signs) : InSign(Signs[i], month.v, day.v)
                      THEN LET i == CHOOSE k \in 1 .. Len(Signs) :
                                        /\ InSign(Signs[k], month.v, day.v)
                                        /\ \A j \in 1 .. (k - 1) : ~InSign(Signs[j], month.v, day.v)
                           IN [sign |-> Signs[i].sign, element |-> Signs[i].element]
                      ELSE UnknownSign

\* -------------------------------------------- compute_personality_signature

\* The text float reads as a NaN, lower-cased.
NanText == <<"n", "a", "n">>

\* float(v): ok is FALSE where it raises; nan says the float is a NaN. The
\* numeric strings of the model are the ones int reads, and nan.
Float(v) ==
    IF v.t = "int" THEN [ok |-> TRUE, v |-> v.v, nan |-> FALSE]
    ELSE IF v.t = "str"
         THEN IF Lower(Strip(CharsOf(v))) = NanText
              THEN [ok |-> TRUE, v |-> 0, nan |-> TRUE]
              ELSE LET r == ParseInt(CharsOf(v)) IN [ok |-> r.ok, v |-> r.v, nan |-> FALSE]
         ELSE [ok |-> FALSE, v |-> 0, nan |-> FALSE]

RECURSIVE SumOf(_)
SumOf(items) == IF items = <<>> THEN 0 ELSE Float(Head(items).v).v + SumOf(Tail(items))

\* a > b of two floats: FALSE when either is a NaN.
FloatGt(a, b) == ~a.nan /\ ~b.nan /\ a.v > b.v

\* The buckets with the boundaries left out.
ToneOfAbove(sum, n, nan) ==
    IF nan THEN "dark"
    ELSE IF 10 * sum > 42 * n THEN "bright"
    ELSE IF 10 * sum > 26 * n THEN "neutral"
    ELSE "dark"

\* avg = sum(vals) / len(vals), then avg >= 4.2, avg >= 2.6: for whole numbers
\* avg >= 4.2 is 10 sum >= 42 n and avg >= 2.6 is 10 sum >= 26 n; a sum with
\* a NaN in it is a NaN, which is >= nothing.
ToneOf(sum, n, nan) ==
    IF nan THEN "dark"
    ELSE IF 10 * sum >= 42 * n THEN "bright"
    ELSE IF 10 * sum >= 26 * n THEN "neutral"
    ELSE "dark"

\* max(numeric_map.keys(), key=...): the index max keeps after looking at the
\* items from i on, best being the one it holds; a later item replaces it
\* only when its value is greater.
RECURSIVE MaxFrom(_, _, _)
MaxFrom(numeric, i, best) ==
    IF i > Len(numeric) THEN best
    ELSE MaxFrom(numeric, i + 1,
                 IF FloatGt(Float(numeric[i].v), Float(numeric[best].v)) THEN i ELSE best)

\* compute_personality_signature(profile)
ComputePersonalitySignature(profile) ==
    IF profile.t # "dict" \/ ~Truthy(profile) THEN [tone |-> "neutral", dominant |-> "unknown"]
    ELSE LET numeric == SelectSeq(profile.items, LAMBDA kv : Float(kv.v).ok)
             n == Len(numeric)
             sum == SumOf(numeric)
             nan == \E k \in 1 .. n : Float(numeric[k].v).nan
         IN IF n = 0 THEN [tone |-> "neutral", dominant |-> "unknown"]
            ELSE [tone |-> ToneOf(sum, n, nan),
                  dominant |-> numeric[MaxFrom(numeric, 2, 1)].k]

\* -------------------------------------------------------- temporal_tone_adjust

\* An adjustment whose night ends an hour early.
TemporalToneAdjustEarly(tone, h) ==
    IF (22 <= h \/ h <= 4) /\ tone = "bright" THEN "neutral"
    ELSE IF (22 <= h \/ h <= 4) /\ tone = "neutral" THEN "dark"
    ELSE IF 6 <= h /\ h <= 10 /\ tone = "dark" THEN "neutral"
    ELSE tone

\* temporal_tone_adjust(tone), h the hour of datetime.now()
TemporalToneAdjust(tone, h) ==
    IF (22 <= h \/ h <= 5) /\ tone = "bright" THEN "neutral"
    ELSE IF (22 <= h \/ h <= 5) /\ tone = "neutral" THEN "dark"
    ELSE IF 6 <= h /\ h <= 10 /\ tone = "dark" THEN "neutral"
    ELSE tone

\* --------------------------------------------------------- rule_based_fortune

\* VOCAB["tones"].get(tone, VOCAB["tones"]["neutral"])
ToneLines(tone) ==
    IF tone = "bright" THEN TonesBright
    ELSE IF tone = "dark" THEN TonesDark
    ELSE TonesNeutral

\* astrology_hint(element)
AstrologyHint(element) == IF element \in DOMAIN Hints THEN Hints[element] ELSE <<>>

\* datetime.now().strftime("%B %d, %Y"), for the day the model runs on.
Ts == <<"M", "a", "y", " ", "0", "1", ",", " ", "2", "0", "2", "5">>

\* A composer that picks the tone line by the tone adjusted a second time.
RuleBasedFortuneTwice(name, zodiac, element, tone, dominant, history, pick) ==
    LET twice == TemporalToneAdjust(TemporalToneAdjust(tone, pick.hour), pick.hour)
        tone_line == ToneLines(twice)[pick.line]
        memory_hint == IF history # <<>>
                       THEN LitRemembers \o Chars[history[Len(history)].theme] \o LitQuoteDot
                       ELSE <<>>
    IN LitTitle \o Title(Chars[pick.theme]) \o LitDash \o Ts \o <<"\n", "\n">>
       \o Chars[name] \o LitThe \o Adjectives[pick.adj] \o LitChildOf \o Chars[zodiac]
       \o <<",", " ">> \o tone_line \o <<"\n">>
       \o LitYour \o Chars[dominant] \o LitStirs \o Chars[pick.theme] \o LitAnd
       \o AstrologyHint(element) \o <<"\n">>
       \o LitAs \o Omens[pick.omen] \o LitPasses
       \o memory_hint \o <<"\n">>
       \o LitMay

\* rule_based_fortune(name, zodiac, element, tone, dominant, history); pick
\* holds what random.choice returns (theme, adj, omen and the index of the
\* tone line) and the hour.
RuleBasedFortune(name, zodiac, element, tone, dominant, history, pick) ==
    LET tone_line == ToneLines(TemporalToneAdjust(tone, pick.hour))[pick.line]
        memory_hint == IF history # <<>>
                       THEN LitRemembers \o Chars[history[Len(history)].theme] \o LitQuoteDot
                       ELSE <<>>
    IN LitTitle \o Title(Chars[pick.theme]) \o LitDash \o Ts \o <<"\n", "\n">>
       \o Chars[name] \o LitThe \o Adjectives[pick.adj] \o LitChildOf \o Chars[zodiac]
       \o <<",", " ">> \o tone_line \o <<"\n">>
       \o LitYour \o Chars[dominant] \o LitStirs \o Chars[pick.theme] \o LitAnd
       \o AstrologyHint(element) \o <<"\n">>
       \o LitAs \o Omens[pick.omen] \o LitPasses
       \o memory_hint \o <<"\n">>
       \o LitMay

\* ------------------------------------------------------------ generate_fortune

\* The least length generate_fortune accepts of the composed fortune.
MinRuleLen == 20

\* The hour of a composer that has not read the clock.
NoHour == 24

\* The locals of a generate_fortune call that has just begun. attempt says
\* how the generative attempt went, invoked whether the generator was run,
\* path how the call ended; ml_hour and hour are the hours temporal_tone_adjust
\* has read in generate_ml_fortune and in rule_based_fortune.
GenLoc == [attempt |-> "none", invoked |-> FALSE, name |-> "", zodiac |-> "", ml_tone |-> "",
           ml_hour |-> NoHour, ml_gen |-> <<>>, tone |-> "", hour |-> NoHour, rule |-> <<>>,
           result |-> <<>>, path |-> "none"]

\* A caller invokes generate_fortune(user_data).
CallGenerate(p, user_data) ==
    /\ Idle(p)
    /\ op' = [op EXCEPT ![p] = [fn |-> "generate", user_data |-> user_data]]
    /\ loc' = [loc EXCEPT ![p] = GenLoc]
    /\ pc' = [pc EXCEPT ![p] = "gf_start"]
    /\ ret' = [ret EXCEPT ![p] = <<"done">>]
    /\ pre' = [pre EXCEPT ![p] = StoreView]
    /\ faults' = [faults EXCEPT ![p] = {}]
    /\ UNCHANGED <<dir, data, fd, mem, out, arg, saved, clock, log, raised, lastSaved,
                   TRANSFORMERS_AVAILABLE, model>>

\* profile = user_data.get("quiz") ...: a user_data that is no mapping has no
\* get and the call goes to the outer handler. if TRANSFORMERS_AVAILABLE: the
\* generative attempt, else the rule-based fallback.
GfStart(p) ==
    /\ pc[p] = "gf_start"
    /\ IF op[p].user_data.t # "dict"
       THEN /\ pc' = [pc EXCEPT ![p] = "gf_except"]
            /\ UNCHANGED loc
       ELSE IF TRANSFORMERS_AVAILABLE
            THEN /\ pc' = [pc EXCEPT ![p] = "ml_init"]
                 /\ UNCHANGED loc
            ELSE /\ pc' = [pc EXCEPT ![p] = "gf_rule"]
                 /\ loc' = [loc EXCEPT ![p].attempt = "unavailable"]
    /\ UNCHANGED <<dir, data, fd, ret, op, mem, out, arg, saved, clock, log, pre, raised, lastSaved,
                   TRANSFORMERS_AVAILABLE, model, faults>>

\* user_data.get("quiz") or user_data
QuizOr(user_data) ==
    LET quiz == DictGet(user_data, "quiz", NoneVal) IN IF Truthy(quiz) THEN quiz ELSE user_data

DefaultName == StrVal("Wanderer")
DefaultBirth == StrVal("1900-01-01")

\* generate_ml_fortune up to the prompt: init_model() (loadOk: the model
\* loads), then name, zodiac, profile_clipped, tone and history. It raises
\* when the model is not there, when the profile has no items() and when the
\* name cannot be a key; generate_fortune catches that and falls back. The
\* history feeds the prompt only.
MlInit(p, loadOk, hour) ==
    /\ pc[p] = "ml_init"
    /\ LET ud == op[p].user_data
           name == DictGet(ud, "name", DefaultName)
           z == AnalyzeZodiac(DictGet(ud, "birthdate", DefaultBirth))
           profile == QuizOr(ud)
           clipped == DictVal(SelectSeq(profile.items, LAMBDA kv : kv.k \notin {"name", "birthdate"}))
           sig == ComputePersonalitySignature(clipped)
       IN /\ model' = IF model = "loaded" \/ loadOk THEN "loaded" ELSE "none"
          /\ IF model # "loaded" /\ ~loadOk
             THEN /\ loc' = [loc EXCEPT ![p].attempt = "unavailable"]
                  /\ pc' = [pc EXCEPT ![p] = "gf_rule"]
             ELSE IF profile.t # "dict" \/ ~Hashable(name)
                  THEN /\ loc' = [loc EXCEPT ![p].attempt = "raised"]
                       /\ pc' = [pc EXCEPT ![p] = "gf_rule"]
                  ELSE /\ loc' = [loc EXCEPT ![p].name = name.a, ![p].zodiac = z.sign,
                                             ![p].ml_tone = TemporalToneAdjust(sig.tone, hour),
                                             ![p].ml_hour = hour]
                       /\ pc' = [pc EXCEPT ![p] = "ml_generate"]
    /\ UNCHANGED <<dir, data, fd, ret, op, mem, out, arg, saved, clock, log, pre, raised, lastSaved,
                   TRANSFORMERS_AVAILABLE, faults>>

\* The generator runs: it raises, or raw is the text it made after the
\* prompt. gen = clean_generated_text(raw.strip()); junk raises ValueError;
\* else append_memory_entry(name, gen, zodiac, tone, guess_theme_from_text(gen))
\* and return gen.
MlGenerate(p, outcome, choice) ==
    /\ pc[p] = "ml_generate"
    /\ LET gen == CleanGeneratedText(Strip(outcome.raw))
           l == [loc[p] EXCEPT !.invoked = TRUE]
       IN IF outcome.raises
          THEN /\ loc' = [loc EXCEPT ![p] = [l EXCEPT !.attempt = "raised"]]
               /\ pc' = [pc EXCEPT ![p] = "gf_rule"]
               /\ UNCHANGED <<arg, ret>>
          ELSE IF gen.raised
               THEN /\ loc' = [loc EXCEPT ![p] = [l EXCEPT !.attempt = "raised"]]
                    /\ pc' = [pc EXCEPT ![p] = "gf_rule"]
                    /\ UNCHANGED <<arg, ret>>
               ELSE IF gen.s = <<>> \/ Len(Strip(gen.s)) < MinGenLen
                    THEN /\ loc' = [loc EXCEPT ![p] = [l EXCEPT !.attempt = "rejected"]]
                         /\ pc' = [pc EXCEPT ![p] = "gf_rule"]
                         /\ UNCHANGED <<arg, ret>>
                    ELSE /\ loc' = [loc EXCEPT ![p] = [l EXCEPT !.ml_gen = gen.s]]
                         /\ arg' = [arg EXCEPT ![p] =
                                       [name |-> l.name, fortune |-> gen.s, zodiac |-> l.zodiac,
                                        tone |-> l.ml_tone, theme |-> GuessThemeFromText(gen.s, choice)]]
                         /\ pc' = [pc EXCEPT ![p] = "am_load"]
                         /\ ret' = Push(p, "ml_ret")
    /\ UNCHANGED <<dir, data, fd, op, mem, out, saved, clock, log, pre, raised, lastSaved,
                   TRANSFORMERS_AVAILABLE, model, faults>>

\* The return that hands back ml_gen whether it is valid or not.
MlRetAccepts(p) ==
    /\ pc[p] = "ml_ret"
    /\ loc' = [loc EXCEPT ![p].attempt = "accepted", ![p].path = "accept"]
    /\ out' = [out EXCEPT ![p] = [fn |-> "generate", kind |-> "str", value |-> Strip(loc[p].ml_gen)]]
    /\ ReturnTo(p)
    /\ UNCHANGED <<dir, data, fd, op, mem, arg, saved, clock, log, pre, raised, lastSaved,
                   TRANSFORMERS_AVAILABLE, model, faults>>

\* generate_ml_fortune returned ml_gen: if _is_valid(ml_gen): return
\* ml_gen.strip(); else fall back.
MlRet(p) ==
    /\ pc[p] = "ml_ret"
    /\ IF IsValid(loc[p].ml_gen)
       THEN /\ loc' = [loc EXCEPT ![p].attempt = "accepted", ![p].path = "accept"]
            /\ out' = [out EXCEPT ![p] = [fn |-> "generate", kind |-> "str", value |-> Strip(loc[p].ml_gen)]]
            /\ ReturnTo(p)
       ELSE /\ loc' = [loc EXCEPT ![p].attempt = "invalid"]
            /\ pc' = [pc EXCEPT ![p] = "gf_rule"]
            /\ UNCHANGED <<out, ret>>
    /\ UNCHANGED <<dir, data, fd, op, mem, arg, saved, clock, log, pre, raised, lastSaved,
                   TRANSFORMERS_AVAILABLE, model, faults>>

\* The rule-based fallback: name, zodiac, profile_map, signature, history =
\* load_memory().get(name, []) (the outer handler when name cannot be a key),
\* rule = rule_based_fortune(...); a rule that is too short is replaced by the
\* placeholder; append_memory_entry(...).
GfRule(p, readFault, pick, choice) ==
    /\ pc[p] = "gf_rule"
    /\ LET ud == op[p].user_data
           name == DictGet(ud, "name", DefaultName)
       IN \E z \in {AnalyzeZodiac(DictGet(ud, "birthdate", DefaultBirth))},
             sig \in {ComputePersonalitySignature(QuizOr(ud))} :
          IF ~Hashable(name)
          THEN /\ pc' = [pc EXCEPT ![p] = "gf_except"]
               /\ UNCHANGED <<loc, arg, ret>>
          ELSE LET history == Get(LoadMemory(readFault), name.a)
                   rule == RuleBasedFortune(name.a, z.sign, z.element, sig.tone, sig.dominant,
                                            history, pick)
                   short == rule = <<>> \/ Len(Strip(rule)) < MinRuleLen
               IN /\ loc' = [loc EXCEPT ![p].name = name.a, ![p].zodiac = z.sign, ![p].tone = sig.tone,
                                        ![p].hour = pick.hour, ![p].rule = rule,
                                        ![p].result = IF short THEN Placeholder ELSE rule,
                                        ![p].path = IF short THEN "short" ELSE "rule"]
                  /\ arg' = [arg EXCEPT ![p] =
                                [name |-> name.a, fortune |-> IF short THEN Placeholder ELSE rule,
                                 zodiac |-> z.sign, tone |-> sig.tone,
                                 theme |-> IF short THEN "quiet" ELSE GuessThemeFromText(rule, choice)]]
                  /\ pc' = [pc EXCEPT ![p] = "am_load"]
                  /\ ret' = Push(p, "gf_ret")
    /\ UNCHANGED <<dir, data, fd, op, mem, out, saved, clock, log, pre, raised, lastSaved,
                   TRANSFORMERS_AVAILABLE, model, faults>>

\* append_memory_entry returned: return rule (return fallback).
GfRet(p) ==
    /\ pc[p] = "gf_ret"
    /\ out' = [out EXCEPT ![p] = [fn |-> "generate", kind |-> "str", value |-> loc[p].result]]
    /\ ReturnTo(p)
    /\ UNCHANGED <<dir, data, fd, op, mem, arg, loc, saved, clock, log, pre, raised, lastSaved,
                   TRANSFORMERS_AVAILABLE, model, faults>>

\* The outer handler with a raise in place of the return.
GfExceptRaises(p) ==
    /\ pc[p] = "gf_except"
    /\ loc' = [loc EXCEPT ![p].path = "except"]
    /\ out' = [out EXCEPT ![p] = [fn |-> "generate", kind |-> "exc", value |-> <<>>]]
    /\ ReturnTo(p)
    /\ UNCHANGED <<dir, data, fd, op, mem, arg, saved, clock, log, pre, raised, lastSaved,
                   TRANSFORMERS_AVAILABLE, model, faults>>

\* except Exception: return the placeholder.
GfExcept(p) ==
    /\ pc[p] = "gf_except"
    /\ loc' = [loc EXCEPT ![p].path = "except"]
    /\ out' = [out EXCEPT ![p] = [fn |-> "generate", kind |-> "str", value |-> Placeholder]]
    /\ ReturnTo(p)
    /\ UNCHANGED <<dir, data, fd, op, mem, arg, saved, clock, log, pre, raised, lastSaved,
                   TRANSFORMERS_AVAILABLE, model, faults>>

\* ----------------------------------------------------------- specifications

\* A fortune text given to append directly.
SampleText == <<"h", "i">>

\* Entries of the log that were built for user u, oldest first.
LogOf(u) ==
    LET mine == SelectSeq(log, LAMBDA r : r.name = u)
    IN [i \in 1 .. Len(mine) |-> mine[i].entry]

AppendBudget(u) == IF u = "ada" THEN MaxAppends ELSE MaxOtherAppends

\* One process appends, for either user, on a store that reads and writes.
NextAppend ==
    \/ \E u \in Users :
          /\ Len(LogOf(u)) < AppendBudget(u)
          /\ CallAppend("p1", u, SampleText, "Aries", "neutral", "light")
    \/ AmLoad("p1", FALSE)
    \/ SwOpen("p1", FALSE)
    \/ SwWrite("p1", FALSE)
    \/ SwReplace("p1", FALSE)
    \/ AmRet("p1")
    \/ Return("p1")

SpecAppend == Init /\ [][NextAppend]_vars

\* One process appends and purges while days go by, on a store that reads
\* and writes.
NextStore ==
    \/ \E u \in Users :
          /\ Len(log) < MaxStoreAppends
          /\ CallAppend("p1", u, SampleText, "Aries", "neutral", "light")
    \/ \E days \in 0 .. MaxDays : clock < MaxClock /\ CallPurge("p1", days)
    \/ PassDay
    \/ AmLoad("p1", FALSE)
    \/ PgLoad("p1", FALSE)
    \/ SwOpen("p1", FALSE)
    \/ SwWrite("p1", FALSE)
    \/ SwReplace("p1", FALSE)
    \/ AmRet("p1")
    \/ PgRet("p1")
    \/ Return("p1")

SpecStore == Init /\ [][NextStore]_vars

\* One process appends and purges; a step of a save may raise, the process
\* may die at any step and be started again.
NextCrash ==
    \/ \E u \in Users :
          /\ clock <= MaxCrashCalls
          /\ CallAppend("p1", u, SampleText, "Aries", "neutral", "light")
    \/ \E days \in 0 .. MaxDays : clock <= MaxCrashCalls /\ CallPurge("p1", days)
    \/ AmLoad("p1", FALSE)
    \/ PgLoad("p1", FALSE)
    \/ \E f \in BOOLEAN : SwOpen("p1", f)
    \/ \E f \in BOOLEAN : SwWrite("p1", f)
    \/ \E f \in BOOLEAN : SwReplace("p1", f)
    \/ SwExcept("p1")
    \/ AmRet("p1")
    \/ PgRet("p1")
    \/ Return("p1")
    \/ Crash("p1")
    \/ Restart("p1")

SpecCrash == Init /\ [][NextCrash]_vars

\* Two processes append and read at the same time, each step of one between
\* any two steps of the other; nothing raises except what the steps of the
\* other process bring about.
NextConc ==
    \E p \in Procs :
        \/ \E u \in Users :
              /\ Len(log) < MaxConcAppends
              /\ CallAppend(p, u, SampleText, "Aries", "neutral", "light")
        \/ AmLoad(p, FALSE)
        \/ SwOpen(p, FALSE)
        \/ SwWrite(p, FALSE)
        \/ SwReplace(p, FALSE)
        \/ SwExcept(p)
        \/ AmRet(p)
        \/ Return(p)
        \/ Load(p, FALSE)

SpecConc == Init /\ [][NextConc]_vars

\* Texts the generator may return after the prompt, one of each kind:
\*   1. text that is accepted;
\*   2. text the cleaner passes and _is_valid rejects for a bad marker;
\*   3. text the cleaner rejects as repetitive;
\*   4. text that is too short;
\*   5. text with no sentence: parts[0] raises;
\*   6. no text.
GenSamples == {
    <<"B", "e", " ", "k", "i", "n", "d", ".", " ", "S", "t", "a", "r", "s", " ", "s", "i", "n", "g", "!", " ", "G", "o", " ", "o", "n", ".">>,
    <<"T", "h", "e", " ", "m", "i", "r", "r", "o", "r", " ", "i", "s", " ", "s", "i", "l", "e", "n", "t", ".", " ", "W", "a", "i", "t", ".">>,
    <<"m", "o", "o", "n", " ", "m", "o", "o", "n", " ", "m", "o", "o", "n", " ", "m", "o", "o", "n", " ", "m", "o", "o", "n", " ", "m", "o", "o", "n">>,
    <<"H", "i", ".">>,
    <<".">>,
    <<>>
    }

\* What the generator does in a call: it raises or returns a text.
Outcomes == {[raises |-> TRUE, raw |-> <<>>]} \cup {[raises |-> FALSE, raw |-> s] : s \in GenSamples}

\* The user_data of the calls: no mapping; a profile under "quiz"; no
\* birthdate; traits at the top level and no name; a name that cannot be a
\* key; a quiz that is no mapping.
UserDatas == {
    NoneVal,
    DictVal(<<[k |-> "name", v |-> StrVal("ada")], [k |-> "birthdate", v |-> StrVal("1990-04-05")],
              [k |-> "quiz", v |-> DictVal(<<[k |-> "courage", v |-> IntVal(5)],
                                             [k |-> "calm", v |-> IntVal(4)]>>)]>>),
    DictVal(<<[k |-> "name", v |-> StrVal("bob")],
              [k |-> "quiz", v |-> DictVal(<<[k |-> "calm", v |-> IntVal(2)],
                                             [k |-> "courage", v |-> IntVal(1)]>>)]>>),
    DictVal(<<[k |-> "birthdate", v |-> StrVal("04/05/1990")], [k |-> "courage", v |-> IntVal(3)]>>),
    DictVal(<<[k |-> "name", v |-> ListVal], [k |-> "birthdate", v |-> StrVal("1990-04-05")]>>),
    DictVal(<<[k |-> "name", v |-> StrVal("ada")], [k |-> "quiz", v |-> ListVal]>>)
    }

\* Hours of the day a call may run at: by night and by day.
Hours == {3, 14}

\* What random.choice may return in a call: the theme, and the indices of the
\* adjective, of the omen and of the tone line.
ThemePicks == {"shadow"}
AdjPicks == {1}
OmenPicks == {1}
LinePicks == {1}

Picks == [theme : ThemePicks, adj : AdjPicks, omen : OmenPicks, line : LinePicks, hour : Hours]

\* The entry a store holds from an earlier run of the application.
SeedEntry == [timestamp |-> IsoFormat(0), fortune |-> SampleText, zodiac |-> "Aries",
              tone |-> "neutral", theme |-> "light"]

SeedMem == <<[name |-> "bob", hist |-> <<SeedEntry>>]>>

\* The application starts with no store or with the store of an earlier run,
\* with the generative path switched on or off (FORCE_RULE_BASED).
InitGen ==
    /\ \E seeded \in BOOLEAN :
          /\ dir = [store |-> IF seeded THEN 1 ELSE 0, tmp |-> 0]
          /\ data = [i \in InoIds |-> IF seeded /\ i = 1 THEN JsonDump(SeedMem) ELSE <<>>]
          /\ log = IF seeded THEN <<[name |-> "bob", entry |-> SeedEntry]>> ELSE <<>>
          /\ lastSaved = IF seeded THEN JsonDump(SeedMem) ELSE <<>>
    /\ fd = [p \in Procs |-> NoFd]
    /\ pc = [p \in Procs |-> "idle"]
    /\ ret = [p \in Procs |-> <<>>]
    /\ op = [p \in Procs |-> [fn |-> "none"]]
    /\ mem = [p \in Procs |-> EmptyMem]
    /\ out = [p \in Procs |-> [fn |-> "none"]]
    /\ arg = [p \in Procs |-> NoArg]
    /\ loc = [p \in Procs |-> NoLoc]
    /\ saved = [p \in Procs |-> TRUE]
    /\ clock = 1
    /\ pre = [p \in Procs |-> EmptyMem]
    /\ raised = [p \in Procs |-> FALSE]
    /\ TRANSFORMERS_AVAILABLE \in BOOLEAN
    /\ model = "none"
    /\ faults = [p \in Procs |-> {}]

\* One process calls generate_fortune; the generator, the reads and the steps
\* of a save may fail.
NextGen ==
    \/ \E ud \in UserDatas : clock <= MaxGenCalls /\ CallGenerate("p1", ud)
    \/ GfStart("p1")
    \/ \E loadOk \in BOOLEAN, hour \in Hours : MlInit("p1", loadOk, hour)
    \/ \E o \in Outcomes, choice \in ThemePicks : MlGenerate("p1", o, choice)
    \/ MlRet("p1")
    \/ \E f \in BOOLEAN, pick \in Picks, choice \in ThemePicks : GfRule("p1", f, pick, choice)
    \/ GfRet("p1")
    \/ GfExcept("p1")
    \/ \E f \in BOOLEAN : AmLoad("p1", f)
    \/ SwOpen("p1", FALSE)
    \/ \E f \in BOOLEAN : SwWrite("p1", f)
    \/ SwReplace("p1", FALSE)
    \/ SwExcept("p1")
    \/ AmRet("p1")
    \/ Return("p1")

SpecGen == InitGen /\ [][NextGen]_vars

\* Mappings a store may hold from earlier runs.
TwoUserMem == <<[name |-> "ada", hist |-> <<SeedEntry>>],
                [name |-> "bob", hist |-> <<SeedEntry, SeedEntry>>]>>

StoredMems == {EmptyMem, SeedMem, TwoUserMem}

\* What the file at the store path may hold when a load runs: a document a
\* save has written; a document cut short at any token; a document with a
\* hole or with text after its end; a JSON document whose root is no object.
WholeDocs == {JsonDump(m) : m \in StoredMems}

CutDocs == {SubSeq(JsonDump(TwoUserMem), 1, n) : n \in 0 .. Len(JsonDump(TwoUserMem)) - 1}

BrokenDocs == {[JsonDump(TwoUserMem) EXCEPT ![3] = TokNul],
               JsonDump(SeedMem) \o <<TokEntry(SeedEntry)>>}

RootTypes == {"list", "str", "int", "bool", "null"}

RootDocs == {<<TokRoot(t)>> : t \in RootTypes}

StoreDocs == WholeDocs \cup CutDocs \cup BrokenDocs \cup RootDocs

\* The store path is absent or holds any of the documents.
InitLoad ==
    /\ \E present \in BOOLEAN, doc \in StoreDocs :
          /\ dir = [store |-> IF present THEN 1 ELSE 0, tmp |-> 0]
          /\ data = [i \in InoIds |-> IF present /\ i = 1 THEN doc ELSE <<>>]
          /\ lastSaved = IF present /\ doc \in WholeDocs THEN doc ELSE <<>>
    /\ log = <<>>
    /\ fd = [p \in Procs |-> NoFd]
    /\ pc = [p \in Procs |-> "idle"]
    /\ ret = [p \in Procs |-> <<>>]
    /\ op = [p \in Procs |-> [fn |-> "none"]]
    /\ mem = [p \in Procs |-> EmptyMem]
    /\ out = [p \in Procs |-> [fn |-> "none"]]
    /\ arg = [p \in Procs |-> NoArg]
    /\ loc = [p \in Procs |-> NoLoc]
    /\ saved = [p \in Procs |-> TRUE]
    /\ clock = 1
    /\ pre = [p \in Procs |-> EmptyMem]
    /\ raised = [p \in Procs |-> FALSE]
    /\ TRANSFORMERS_AVAILABLE = FALSE
    /\ model = "none"
    /\ faults = [p \in Procs |-> {}]

\* Readers load the store; the read itself may fail.
NextLoad ==
    \E p \in Procs :
        \/ \E f \in BOOLEAN : Load(p, f)
        \/ Return(p)

SpecLoad == InitLoad /\ [][NextLoad]_vars

\* ------------------------------------------------------------ zodiac calls

\* A caller invokes analyze_zodiac(birthdate); the function has no state and
\* returns at once.
CallZodiac(p, birthdate) ==
    /\ Idle(p)
    /\ op' = [op EXCEPT ![p] = [fn |-> "zodiac", birthdate |-> birthdate]]
    /\ out' = [out EXCEPT ![p] = [fn |-> "zodiac", kind |-> "pair",
                                  value |-> AnalyzeZodiac(birthdate)]]
    /\ pc' = [pc EXCEPT ![p] = "done"]
    /\ UNCHANGED <<dir, data, fd, ret, mem, arg, loc, saved, clock, log, pre, raised, lastSaved,
                   TRANSFORMERS_AVAILABLE, model, faults>>

\* The decimal digits of n, padded with zeros to width w.
RECURSIVE Pad(_, _)
Pad(n, w) == IF w = 0 THEN <<>> ELSE Pad(n \div 10, w - 1) \o <<Digits[(n % 10) + 1]>>

\* The text YYYY-MM-DD of a date.
DateText(y, m, d) == Pad(y, 4) \o <<"-">> \o Pad(m, 2) \o <<"-">> \o Pad(d, 2)

IsLeap(y) == y % 4 = 0 /\ (y % 100 # 0 \/ y % 400 = 0)

DaysIn(y, m) ==
    IF m = 2 THEN (IF IsLeap(y) THEN 29 ELSE 28)
    ELSE IF m \in {4, 6, 9, 11} THEN 30 ELSE 31

\* The years birthdates are drawn from: a common year and a leap year.
Years == {1990, 2000}

\* Every valid date of those years.
ValidDates == {ymd \in Years \X (1 .. 12) \X (1 .. 31) : ymd[3] <= DaysIn(ymd[1], ymd[2])}

\* Birthdates that are no date: values that are no str, texts with fewer or
\* more than three fields, texts whose month or day is no number or no month
\* or day of the calendar.
MalformedTexts == {
    <<>>,
    <<"1", "9", "9", "0">>,
    <<"1", "9", "9", "0", "-", "0", "4">>,
    <<"1", "9", "9", "0", "-", "x", "x", "-", "0", "5">>,
    <<"1", "9", "9", "0", "-", "0", "4", "-", "5", "x">>,
    <<"1", "9", "9", "0", "-", "0", "4", "-">>,
    <<"1", "9", "9", "0", "-", "-", "0", "5">>,
    <<"0", "4", "/", "0", "5", "/", "1", "9", "9", "0">>,
    <<"a", "-", "b", "-", "c">>,
    <<"1", "9", "9", "0", "-", "0", "4", "-", "0", "5", "-", "0", "6">>,
    <<"1", "9", "9", "0", "-", "0", "4", "-", "0", "5", "-">>,
    <<"-", "1", "9", "9", "0", "-", "0", "4", "-", "0", "5">>,
    <<"1", "9", "9", "0", "-", "1", "3", "-", "4", "0">>
    }

MalformedBirthdates == {NoneVal, IntVal(19900405), ListVal} \cup {TextVal(t) : t \in MalformedTexts}

Birthdates == {TextVal(DateText(ymd[1], ymd[2], ymd[3])) : ymd \in ValidDates} \cup MalformedBirthdates

InitZodiac == Init

NextZodiac ==
    \/ \E b \in Birthdates : CallZodiac("p1", b)
    \/ Return("p1")

SpecZodiac == InitZodiac /\ [][NextZodiac]_vars

\* --------------------------------------------------------- signature calls

\* A caller invokes compute_personality_signature(profile); the function has
\* no state and returns at once.
CallSignature(p, profile) ==
    /\ Idle(p)
    /\ op' = [op EXCEPT ![p] = [fn |-> "signature", profile |-> profile]]
    /\ out' = [out EXCEPT ![p] = [fn |-> "signature", kind |-> "pair",
                                  value |-> ComputePersonalitySignature(profile)]]
    /\ pc' = [pc EXCEPT ![p] = "done"]
    /\ UNCHANGED <<dir, data, fd, ret, mem, arg, loc, saved, clock, log, pre, raised, lastSaved,
                   TRANSFORMERS_AVAILABLE, model, faults>>

\* The traits of a quiz, in the order they are put in a profile.
TraitNames == <<"emotion", "focus", "intuition", "trust", "reflection">>

\* Sizes of the profiles of whole numbers: one trait, two, and all of them.
ProfileLens == {1, 2, Len(TraitNames)}

\* The dict with the values vs under the first keys.
ProfileOf(vs) == DictVal([i \in 1 .. Len(vs) |-> [k |-> TraitNames[i], v |-> vs[i]]])

\* Profiles of whole numbers: every multiset of values of 1 .. MaxTrait of
\* those sizes, lowest first (the tone does not depend on the order).
NumberProfiles ==
    UNION {{ProfileOf([i \in 1 .. n |-> IntVal(f[i])]) :
               f \in {g \in [1 .. n -> 1 .. MaxTrait] : \A i \in 1 .. (n - 1) : g[i] <= g[i + 1]}} :
           n \in ProfileLens}

\* Values of the mixed profiles: numbers, a numeric text, the text nan, a
\* text that is no number, None.
MixedValues == {IntVal(2), IntVal(5), TextVal(<<"5">>), TextVal(NanText), StrVal("quiet"), NoneVal}

\* Every profile of up to three of those values, in every order.
MixedProfiles ==
    UNION {{ProfileOf(f) : f \in [1 .. n -> MixedValues]} : n \in 0 .. 3}

Profiles == NumberProfiles \cup MixedProfiles \cup {NoneVal, ListVal}

\* The profiles of n entries.
ProfilesOfLen == [n \in 0 .. Len(TraitNames) |-> {q \in Profiles : q.t = "dict" /\ Len(q.items) = n}]

\* q has the keys of p in the same order, with every number of p kept or
\* raised and everything else kept.
Raises(q, p) ==
    /\ p.t = "dict" /\ q.t = "dict"
    /\ Len(q.items) = Len(p.items)
    /\ \A i \in 1 .. Len(p.items) :
          /\ q.items[i].k = p.items[i].k
          /\ \/ q.items[i].v = p.items[i].v
             \/ /\ Float(p.items[i].v).ok /\ ~Float(p.items[i].v).nan
                /\ Float(q.items[i].v).ok /\ ~Float(q.items[i].v).nan
                /\ Float(q.items[i].v).v >= Float(p.items[i].v).v

InitSig == Init

\* One caller asks for the signature of any profile; while it holds the
\* result a second caller asks for the signature of a profile that raises
\* the first.
NextSig ==
    \/ \E q \in Profiles : CallSignature("p1", q)
    \/ /\ pc["p1"] = "done"
       /\ op["p1"].profile.t = "dict"
       /\ \E q \in ProfilesOfLen[Len(op["p1"].profile.items)] :
             /\ Raises(q, op["p1"].profile)
             /\ CallSignature("p2", q)
    \/ Idle("p2") /\ Return("p1")
    \/ Return("p2")

SpecSig == InitSig /\ [][NextSig]_vars

\* ----------------------------------------------------------- cleaner calls

\* A caller invokes clean_generated_text(text); the function has no state and
\* returns, or raises, at once.
CallClean(p, text) ==
    /\ Idle(p)
    /\ op' = [op EXCEPT ![p] = [fn |-> "clean", text |-> text]]
    /\ out' = [out EXCEPT ![p] =
                  LET r == CleanGeneratedText(text)
                  IN [fn |-> "clean", kind |-> IF r.raised THEN "exc" ELSE "str", value |-> r.s]]
    /\ pc' = [pc EXCEPT ![p] = "done"]
    /\ UNCHANGED <<dir, data, fd, ret, mem, arg, loc, saved, clock, log, pre, raised, lastSaved,
                   TRANSFORMERS_AVAILABLE, model, faults>>

\* The words ws with one space between them.
RECURSIVE Join(_)
Join(ws) ==
    IF ws = <<>> THEN <<>>
    ELSE IF Len(ws) = 1 THEN ws[1]
    ELSE ws[1] \o <<" ">> \o Join(Tail(ws))

\* Two words a generator repeats.
WordGo == <<"g", "o">>
WordOn == <<"o", "n">>

\* Every text of up to MaxWords of the two words, and thirty times one word.
WordTexts ==
    UNION {{Join(ws) : ws \in [1 .. n -> {WordGo, WordOn}]} : n \in 0 .. MaxWords}
    \cup {Join([i \in 1 .. 30 |-> WordGo])}

\* What the sentences of a text say, by their place in the text.
Bodies == <<<<"B", "e", " ", "k", "i", "n", "d">>,
           <<"S", "t", "a", "r", "s", " ", "s", "i", "n", "g">>,
           <<"G", "o", " ", "o", "n">>,
           <<"W", "a", "i", "t">>,
           <<"R", "e", "s", "t">>>>

\* The marks that end a sentence.
Marks == {".", "?", "!"}

\* Every text of 1 .. MaxSentences sentences, each ended by any of the marks.
SentenceTexts ==
    UNION {{Join([i \in 1 .. n |-> Bodies[i] \o <<ms[i]>>]) : ms \in [1 .. n -> Marks]} :
           n \in 1 .. MaxSentences}

\* Texts without a word, a mark by itself, and a text of marks only.
OddTexts == {<<>>, <<" ", " ">>, <<".">>, <<"?", "!">>}

CleanTexts == WordTexts \cup SentenceTexts \cup OddTexts

InitClean == Init

NextClean ==
    \/ \E t \in CleanTexts : CallClean("p1", t)
    \/ Return("p1")

SpecClean == InitClean /\ [][NextClean]_vars

\* ------------------------------------------------------------ POST /submit

\* c.isalnum() or c in " _-"
KeptInName(c) == IsUpper(c) \/ IsLower(c) \/ IsDigit(c) \/ c \in {" ", "_", "-"}

\* sanitize_name(name): the characters kept, stripped, or "Wanderer"; the
\* names of the model are the ones that have their characters in Chars.
SanitizeName(name) ==
    LET kept == Strip(SelectSeq(CharsOf(name), KeptInName))
    IN IF kept = <<>> THEN DefaultName
       ELSE StrVal(CHOOSE a \in {"ada", "bob", "Wanderer"} : Chars[a] = kept)

\* The year ml_feature_vector reads from the birthdate:
\* int(birthdate.split("-")[0]) if birthdate and "-" in birthdate else 1900;
\* ok is FALSE where int raises.
BirthYear(birthdate) ==
    LET b == CharsOf(birthdate)
    IN IF b # <<>> /\ Contains(b, <<"-">>)
       THEN ParseInt(Split(b, "-")[1])
       ELSE [ok |-> TRUE, v |-> 1900]

\* The JSON branch of submit_quiz up to the call of generate_fortune: name,
\* birthdate and profile are read from the body, the session and the
\* counters are updated, user_data is built and generate_fortune is called.
CallSubmit(p, body) ==
    /\ Idle(p)
    /\ op' = [op EXCEPT ![p] =
                 [fn |-> "submit", body |-> body,
                  user_data |-> DictVal(<<
                      [k |-> "name", v |-> SanitizeName(DictGet(body, "name", DefaultName))],
                      [k |-> "birthdate", v |-> DictGet(body, "birthdate", DefaultBirth)],
                      [k |-> "quiz", v |-> DictGet(body, "quiz", DictVal(<<>>))]>>)]]
    /\ loc' = [loc EXCEPT ![p] = GenLoc]
    /\ pc' = [pc EXCEPT ![p] = "gf_start"]
    /\ ret' = [ret EXCEPT ![p] = <<"sq_ret">>]
    /\ pre' = [pre EXCEPT ![p] = StoreView]
    /\ faults' = [faults EXCEPT ![p] = {}]
    /\ UNCHANGED <<dir, data, fd, mem, out, arg, saved, clock, log, raised, lastSaved,
                   TRANSFORMERS_AVAILABLE, model>>

\* The response for a handler that went through.
Ok200(fortune) == [status |-> 200, body |-> [fortune |-> fortune]]

\* The response of the outer handler of submit_quiz.
Error500 == [status |-> 500, body |-> [error |-> "Failed to process quiz."]]

\* submit_quiz after generate_fortune has returned fortune_text:
\* db.save_user_result in its own try (dbFault: it raises, which is logged),
\* ml_feature_vector, which raises where the year of the birthdate is no
\* number, the records and hints kept in their own try blocks, then the
\* response; whatever raises outside those blocks ends in the outer handler.
SqRet(p, dbFault) ==
    /\ pc[p] = "sq_ret"
    /\ LET birthdate == DictGet(op[p].user_data, "birthdate", DefaultBirth)
           response == IF BirthYear(birthdate).ok THEN Ok200(out[p].value) ELSE Error500
       IN out' = [out EXCEPT ![p] = [fn |-> "submit", kind |-> "response",
                                      status |-> response.status, body |-> response.body,
                                      logged |-> IF dbFault THEN {"db"} ELSE {}]]
    /\ pc' = [pc EXCEPT ![p] = "done"]
    /\ UNCHANGED <<dir, data, fd, ret, op, mem, arg, loc, saved, clock, log, pre, raised, lastSaved,
                   TRANSFORMERS_AVAILABLE, model, faults>>

\* Names a body carries: as it is kept, with characters that are dropped,
\* and with nothing that is kept.
BodyNames == {TextVal(<<"a", "d", "a">>), TextVal(<<" ", "a", ".", "d", "/", "a", "!", " ">>), TextVal(<<"?", "!">>)}

\* Birthdates a body carries: a date, a date in another notation, texts with
\* a '-' whose first field is no number, the empty text.
BodyBirthdates == {TextVal(<<"1", "9", "9", "0", "-", "0", "1", "-", "0", "1">>), TextVal(<<"0", "4", "/", "0", "5", "/", "1", "9", "9", "0">>),
                   TextVal(<<"J", "a", "n", "-", "0", "1", "-", "1", "9", "9", "0">>), TextVal(<<"-">>), TextVal(<<>>)}

BodyQuiz == DictVal(<<[k |-> "courage", v |-> IntVal(5)], [k |-> "calm", v |-> IntVal(4)]>>)

Bodies200 == {DictVal(<<[k |-> "name", v |-> n], [k |-> "birthdate", v |-> b],
                        [k |-> "quiz", v |-> BodyQuiz]>>) : n \in BodyNames, b \in BodyBirthdates}

InitSubmit == Init

\* One client posts to /submit, the generative path being off as shipped;
\* reads of the store, the staged write and the database may fail.
NextSubmit ==
    \/ \E body \in Bodies200 : clock <= MaxGenCalls /\ CallSubmit("p1", body)
    \/ GfStart("p1")
    \/ \E f \in BOOLEAN, pick \in Picks, choice \in ThemePicks : GfRule("p1", f, pick, choice)
    \/ GfRet("p1")
    \/ \E f \in BOOLEAN : AmLoad("p1", f)
    \/ SwOpen("p1", FALSE)
    \/ \E f \in BOOLEAN : SwWrite("p1", f)
    \/ SwReplace("p1", FALSE)
    \/ SwExcept("p1")
    \/ AmRet("p1")
    \/ \E dbFault \in BOOLEAN : SqRet("p1", dbFault)
    \/ Return("p1")

SpecSubmit == InitSubmit /\ [][NextSubmit]_vars

\* -------------------------------------------------------- tone adjust calls

\* A caller invokes temporal_tone_adjust(tone) when datetime.now().hour is
\* hour; the function has no state and returns at once.
CallAdjust(p, tone, hour) ==
    /\ Idle(p)
    /\ op' = [op EXCEPT ![p] = [fn |-> "adjust", tone |-> tone, hour |-> hour]]
    /\ out' = [out EXCEPT ![p] = [fn |-> "adjust", kind |-> "str",
                                  value |-> TemporalToneAdjust(tone, hour)]]
    /\ pc' = [pc EXCEPT ![p] = "done"]
    /\ UNCHANGED <<dir, data, fd, ret, mem, arg, loc, saved, clock, log, pre, raised, lastSaved,
                   TRANSFORMERS_AVAILABLE, model, faults>>

\* The values of datetime.now().hour.
HoursOfDay == 0 .. 23

\* The tones of the calls: the three names, and texts that are none of them.
AdjustTones == {"bright", "neutral", "dark", "unknown", ""}

InitAdjust == Init

NextAdjust ==
    \/ \E tone \in AdjustTones, hour \in HoursOfDay : CallAdjust("p1", tone, hour)
    \/ Return("p1")

SpecAdjust == InitAdjust /\ [][NextAdjust]_vars

\* ------------------------------------------------- scripts/clean_memory.py

\* The mirror sign of the title line, as the script writes it.
MirrorMark == <<"*", "*", "*", "*">>

\* "\n\n(Truncated long fortune)"
TruncatedNote ==
    <<"\n", "\n", "(", "T", "r", "u", "n", "c", "a", "t", "e", "d", " ", "l", "o", "n", "g", " ",
      "f", "o", "r", "t", "u", "n", "e", ")">>

\* The lengths the script tests: a fortune shorter than TrivialLen is
\* dropped, one shorter than CorruptLen is dropped unless it holds the mirror
\* sign, one longer than LongLen is cut to CutLen characters.
TrivialLen == 8
CorruptLen == 40
LongLen == 4000
CutLen == 1000

\* str.rstrip()
RStrip(s) ==
    IF \A i \in 1 .. Len(s) : s[i] \in WhiteSpace THEN <<>>
    ELSE SubSeq(s, 1, SetMax({i \in 1 .. Len(s) : s[i] \notin WhiteSpace}))

\* is_repetitive_junk(text) of the script, for a str that is not empty.
IsRepetitiveJunk(text) ==
    LET words == Words(text)
        c == MostCommonCount(words)
    IN /\ Len(words) >= 5
       /\ \/ 10 * c > 6 * Len(words)
          \/ c > 5 /\ Len(words) < 50

\* The script drops the entry whose fortune is f.
Dropped(f) ==
    LET low == Lower(f)
    IN \/ f = <<>>
       \/ \E i \in 1 .. Len(BadMarkers) : Contains(low, BadMarkers[i])
       \/ Len(Strip(f)) < TrivialLen
       \/ Len(Strip(f)) < CorruptLen /\ ~Contains(f, MirrorMark)
       \/ IsRepetitiveJunk(f)

\* The entry as the script keeps it: a fortune longer than LongLen is
\* replaced by its first CutLen characters, right-stripped, and the note.
Truncated(entry) ==
    IF Len(entry.fortune) > LongLen
    THEN [entry EXCEPT !.fortune = RStrip(SubSeq(@, 1, CutLen)) \o TruncatedNote]
    ELSE entry

\* The loop over reversed(history): i is the entry looked at, seen the
\* fortunes kept so far, newhist the entries kept, oldest first.
RECURSIVE CleanFrom(_, _, _, _)
CleanFrom(history, i, seen, newhist) ==
    IF i = 0 THEN newhist
    ELSE IF Dropped(history[i].fortune) THEN CleanFrom(history, i - 1, seen, newhist)
    ELSE LET entry == Truncated(history[i])
         IN IF entry.fortune \in seen THEN CleanFrom(history, i - 1, seen, newhist)
            ELSE CleanFrom(history, i - 1, seen \cup {entry.fortune}, <<entry>> \o newhist)

\* cleaned: every name with its cleaned history, in the order of mem.
Cleaned(m) ==
    [i \in 1 .. Len(m) |->
        [name |-> m[i].name, hist |-> CleanFrom(m[i].hist, Len(m[i].hist), {}, <<>>)]]

\* The script is started: without a memory file it exits with status 1.
CallCleanup(p) ==
    /\ Idle(p)
    /\ op' = [op EXCEPT ![p] = [fn |-> "cleanup"]]
    /\ pre' = [pre EXCEPT ![p] = StoreView]
    /\ IF dir.store = 0
       THEN /\ out' = [out EXCEPT ![p] = [fn |-> "cleanup", kind |-> "exit", status |-> 1]]
            /\ pc' = [pc EXCEPT ![p] = "done"]
       ELSE /\ pc' = [pc EXCEPT ![p] = "cs_read"]
            /\ UNCHANGED out
    /\ UNCHANGED <<dir, data, fd, ret, mem, arg, loc, saved, clock, log, raised, lastSaved,
                   TRANSFORMERS_AVAILABLE, model, faults>>

\* mem = json.load(f), the backup, and the loop that builds cleaned. The
\* script has no handler: where the read or json.load raises, and where the
\* root has no items(), it ends with the traceback and status 1.
CsRead(p, readFault) ==
    /\ pc[p] = "cs_read"
    /\ LET r == JsonValue(data[dir.store])
       IN IF readFault \/ ~r.ok \/ r.v.t # "dict"
          THEN /\ out' = [out EXCEPT ![p] = [fn |-> "cleanup", kind |-> "exc", status |-> 1]]
               /\ pc' = [pc EXCEPT ![p] = "done"]
               /\ UNCHANGED mem
          ELSE /\ mem' = [mem EXCEPT ![p] = Cleaned(r.v.mem)]
               /\ pc' = [pc EXCEPT ![p] = "cs_write"]
               /\ UNCHANGED out
    /\ UNCHANGED <<dir, data, fd, ret, op, arg, loc, saved, clock, log, pre, raised, lastSaved,
                   TRANSFORMERS_AVAILABLE, model, faults>>

\* with open(MEMORY, 'w') as f: json.dump(cleaned, f, ...): the memory file
\* is truncated where it stands and the document is written into it.
\* writeFault: the write raises after the truncation and the script ends.
CsWrite(p, writeFault) ==
    /\ pc[p] = "cs_write"
    /\ data' = [data EXCEPT ![dir.store] = IF writeFault THEN <<>> ELSE JsonDump(mem[p])]
    /\ lastSaved' = IF writeFault THEN lastSaved ELSE JsonDump(mem[p])
    /\ out' = [out EXCEPT ![p] = IF writeFault
                                 THEN [fn |-> "cleanup", kind |-> "exc", status |-> 1]
                                 ELSE [fn |-> "cleanup", kind |-> "exit", status |-> 0]]
    /\ pc' = [pc EXCEPT ![p] = "done"]
    /\ UNCHANGED <<dir, fd, ret, op, mem, arg, loc, saved, clock, log, pre, raised,
                   TRANSFORMERS_AVAILABLE, model, faults>>

\* --------------------------------------------- the store and its operations

\* SpecFrame lets appends and purges begin up to this time.
MaxFrameCalls == 2

\* What random.choice gave the composer of the fortunes a store holds.
SeedPick == [theme |-> "shadow", adj |-> 1, omen |-> 1, line |-> 1, hour |-> 14]

\* Entries of an earlier run of the application: a rule-based fortune of bob,
\* and the rule-based fortune of a user whose name has 4000 letters.
RuleEntry == [timestamp |-> IsoFormat(0),
              fortune |-> RuleBasedFortune("bob", "Aries", "Fire", "neutral", "calm", <<>>, SeedPick),
              zodiac |-> "Aries", tone |-> "neutral", theme |-> "shadow"]
LongEntry == [timestamp |-> IsoFormat(0),
              fortune |-> RuleBasedFortune("aaaa", "Aries", "Fire", "neutral", "calm", <<>>, SeedPick),
              zodiac |-> "Aries", tone |-> "neutral", theme |-> "shadow"]

\* Entries no append of this program wrote: one without the key "timestamp"
\* (h.get("timestamp") is None) and one whose timestamp is no ISO date.
\* datetime.fromisoformat raises for both.
NoTimestamp == [fmt |-> "none", t |-> 0]
BadTimestamp == [fmt |-> "text", t |-> 0]
UnstampedEntry == [RuleEntry EXCEPT !.timestamp = NoTimestamp]
BadStampEntry == [RuleEntry EXCEPT !.timestamp = BadTimestamp]

\* The mappings a store holds when the operations begin.
FrameMems == {
    <<[name |-> "bob", hist |-> <<RuleEntry>>]>>,
    <<[name |-> "bob", hist |-> <<RuleEntry>>], [name |-> "aaaa", hist |-> <<LongEntry>>]>>,
    <<[name |-> "bob", hist |-> <<RuleEntry>>], [name |-> "ada", hist |-> <<UnstampedEntry>>]>>,
    <<[name |-> "bob", hist |-> <<RuleEntry, BadStampEntry>>]>>
    }

InitFrame ==
    /\ \E m \in FrameMems :
          /\ data = [i \in InoIds |-> IF i = 1 THEN JsonDump(m) ELSE <<>>]
          /\ lastSaved = JsonDump(m)
    /\ dir = [store |-> 1, tmp |-> 0]
    /\ log = <<>>
    /\ fd = [p \in Procs |-> NoFd]
    /\ pc = [p \in Procs |-> "idle"]
    /\ ret = [p \in Procs |-> <<>>]
    /\ op = [p \in Procs |-> [fn |-> "none"]]
    /\ mem = [p \in Procs |-> EmptyMem]
    /\ out = [p \in Procs |-> [fn |-> "none"]]
    /\ arg = [p \in Procs |-> NoArg]
    /\ loc = [p \in Procs |-> NoLoc]
    /\ saved = [p \in Procs |-> TRUE]
    /\ clock = 1
    /\ pre = [p \in Procs |-> EmptyMem]
    /\ raised = [p \in Procs |-> FALSE]
    /\ TRANSFORMERS_AVAILABLE = FALSE
    /\ model = "none"
    /\ faults = [p \in Procs |-> {}]

\* One process appends, purges, reads (get_user_history,
\* summarize_user_history, export_memory_csv) and runs the cleanup script, on
\* a store whose reads and writes may fail.
NextFrame ==
    \/ \E u \in Users :
          /\ clock <= MaxFrameCalls
          /\ CallAppend("p1", u, RuleEntry.fortune, "Aries", "neutral", "shadow")
    \/ \E f \in BOOLEAN : AmLoad("p1", f)
    \/ SwOpen("p1", FALSE)
    \/ \E f \in BOOLEAN : SwWrite("p1", f)
    \/ SwReplace("p1", FALSE)
    \/ SwExcept("p1")
    \/ AmRet("p1")
    \/ \E days \in 0 .. MaxDays : clock <= MaxFrameCalls /\ CallPurge("p1", days)
    \/ \E f \in BOOLEAN : PgLoad("p1", f)
    \/ PgRet("p1")
    \/ \E f \in BOOLEAN : Load("p1", f)
    \/ CallCleanup("p1")
    \/ \E f \in BOOLEAN : CsRead("p1", f)
    \/ \E f \in BOOLEAN : CsWrite("p1", f)
    \/ Return("p1")

SpecFrame == InitFrame /\ [][NextFrame]_vars

\* ------------------------------------------------------- theme guess calls

\* A caller invokes guess_theme_from_text(text); pick is the place in
\* VOCAB["themes"] that random.choice takes if it is asked.
CallGuess(p, text, pick) ==
    /\ Idle(p)
    /\ op' = [op EXCEPT ![p] = [fn |-> "guess", text |-> text, choice |-> Themes[pick]]]
    /\ out' = [out EXCEPT ![p] = [fn |-> "guess", kind |-> "str",
                                  value |-> GuessThemeFromText(text, Themes[pick])]]
    /\ pc' = [pc EXCEPT ![p] = "done"]
    /\ UNCHANGED <<dir, data, fd, ret, mem, arg, loc, saved, clock, log, pre, raised, lastSaved,
                   TRANSFORMERS_AVAILABLE, model, faults>>

\* The longest text of the calls, in words.
MaxGuessWords == 3

\* The words of the texts: theme words in lower, mixed and upper case, and a
\* word that holds no theme.
GuessWords == {Chars["echo"], <<"E", "c", "h", "o">>, <<"T", "I", "D", "E">>, <<"m", "i", "s", "t">>}

GuessTexts == UNION {{Join(ws) : ws \in [1 .. n -> GuessWords]} : n \in 0 .. MaxGuessWords}

InitGuess == Init

NextGuess ==
    \/ \E text \in GuessTexts, pick \in 1 .. Len(Themes) : CallGuess("p1", text, pick)
    \/ Return("p1")

SpecGuess == InitGuess /\ [][NextGuess]_vars

\* ------------------------------------------------------------- astrology.py

\* ZODIAC_SIGNS, in the order of the source: sign, (month, day) of its
\* start and of its end.
ZODIAC_SIGNS == <<
    [sign |-> "Capricorn", m1 |-> 12, d1 |-> 22, m2 |-> 1, d2 |-> 19],
    [sign |-> "Aquarius", m1 |-> 1, d1 |-> 20, m2 |-> 2, d2 |-> 18],
    [sign |-> "Pisces", m1 |-> 2, d1 |-> 19, m2 |-> 3, d2 |-> 20],
    [sign |-> "Aries", m1 |-> 3, d1 |-> 21, m2 |-> 4, d2 |-> 19],
    [sign |-> "Taurus", m1 |-> 4, d1 |-> 20, m2 |-> 5, d2 |-> 20],
    [sign |-> "Gemini", m1 |-> 5, d1 |-> 21, m2 |-> 6, d2 |-> 20],
    [sign |-> "Cancer", m1 |-> 6, d1 |-> 21, m2 |-> 7, d2 |-> 22],
    [sign |-> "Leo", m1 |-> 7, d1 |-> 23, m2 |-> 8, d2 |-> 22],
    [sign |-> "Virgo", m1 |-> 8, d1 |-> 23, m2 |-> 9, d2 |-> 22],
    [sign |-> "Libra", m1 |-> 9, d1 |-> 23, m2 |-> 10, d2 |-> 22],
    [sign |-> "Scorpio", m1 |-> 10, d1 |-> 23, m2 |-> 11, d2 |-> 21],
    [sign |-> "Sagittarius", m1 |-> 11, d1 |-> 22, m2 |-> 12, d2 |-> 21]
    >>

\* ELEMENTS, the table from element to its signs.
ELEMENTS == [Fire |-> {"Aries", "Leo", "Sagittarius"},
             Earth |-> {"Taurus", "Virgo", "Capricorn"},
             Air |-> {"Gemini", "Libra", "Aquarius"},
             Water |-> {"Cancer", "Scorpio", "Pisces"}]

\* get_element(sign)
GetElement(sign) ==
    IF \E e \in DOMAIN ELEMENTS : sign \in ELEMENTS[e]
    THEN CHOOSE e \in DOMAIN ELEMENTS : sign \in ELEMENTS[e]
    ELSE "Void"

\* The digits of a field of the format: %Y is four digits, %m and %d are one
\* or two digits, and %d also a space and one digit that is not 0.
AllDigits(s) == s # <<>> /\ \A i \in 1 .. Len(s) : IsDigit(s[i])
FieldY(s) == Len(s) = 4 /\ AllDigits(s)
FieldM(s) == Len(s) \in {1, 2} /\ AllDigits(s) /\ DigitsVal(s, 0) \in 1 .. 12
FieldD(s) ==
    \/ Len(s) \in {1, 2} /\ AllDigits(s) /\ DigitsVal(s, 0) \in 1 .. 31
    \/ Len(s) = 2 /\ s[1] = " " /\ IsDigit(s[2]) /\ s[2] # "0"

\* datetime.strptime(text, "%Y-%m-%d"): ok is FALSE where it raises, for a
\* text that is not three such fields with "-" between them and nothing
\* else, and for a year, month and day that are no date of the calendar.
StrpTime(text) ==
    LET parts == Split(text, "-") IN
    IF Len(parts) = 3 /\ FieldY(parts[1]) /\ FieldM(parts[2]) /\ FieldD(parts[3])
    THEN LET y == DigitsVal(parts[1], 0)
             m == DigitsVal(parts[2], 0)
             d == DigitsVal(SelectSeq(parts[3], IsDigit), 0)
         IN [ok |-> y >= 1 /\ d <= DaysIn(y, m), year |-> y, month |-> m, day |-> d]
    ELSE [ok |-> FALSE, year |-> 0, month |-> 0, day |-> 0]

\* astrology.analyze_zodiac(birthdate_str): strptime raises TypeError for a
\* value that is no str; every exception gives ("Unknown", "Void").
AstrologyAnalyzeZodiac(birthdate) ==
    IF birthdate.t # "str" THEN UnknownSign
    ELSE LET date_obj == StrpTime(CharsOf(birthdate)) IN
         IF ~date_obj.ok THEN UnknownSign
         ELSE IF \E i \in 1 .. Len(ZODIAC_SIGNS) : InSign(ZODIAC_SIGNS[i], date_obj.month, date_obj.day)
              THEN LET i == CHOOSE k \in 1 .. Len(ZODIAC_SIGNS) :
                                /\ InSign(ZODIAC_SIGNS[k], date_obj.month, date_obj.day)
                                /\ \A j \in 1 .. (k - 1) :
                                      ~InSign(ZODIAC_SIGNS[j], date_obj.month, date_obj.day)
                   IN [sign |-> ZODIAC_SIGNS[i].sign, element |-> GetElement(ZODIAC_SIGNS[i].sign)]
              ELSE UnknownSign

\* One submission resolves its birthdate twice: generate_fortune with
\* analyze_zodiac of fortune_engine, for the fortune and the memory entry,
\* and submit_quiz with analyze_zodiac of astrology, for the hints of the
\* response.
CallResolvers(p, birthdate) ==
    /\ Idle(p)
    /\ op' = [op EXCEPT ![p] = [fn |-> "resolvers", birthdate |-> birthdate]]
    /\ out' = [out EXCEPT ![p] = [fn |-> "resolvers", kind |-> "pairs",
                                  fortune |-> AnalyzeZodiac(birthdate),
                                  hints |-> AstrologyAnalyzeZodiac(birthdate)]]
    /\ pc' = [pc EXCEPT ![p] = "done"]
    /\ UNCHANGED <<dir, data, fd, ret, mem, arg, loc, saved, clock, log, pre, raised, lastSaved,
                   TRANSFORMERS_AVAILABLE, model, faults>>

InitResolve == Init

NextResolve ==
    \/ \E b \in Birthdates : CallResolvers("p1", b)
    \/ Return("p1")

SpecResolve == InitResolve /\ [][NextResolve]_vars

\* --------------------------------------------------------------- the claims

Returned(p, fn) == pc[p] = "done" /\ op[p].fn = fn

\* Number of entries a mapping holds.
RECURSIVE EntryCount(_)
EntryCount(m) == IF m = <<>> THEN 0 ELSE Len(Head(m).hist) + EntryCount(Tail(m))

\* The user_data of the call of p is a mapping whose name can be a key.
WellFormed(p) ==
    /\ op[p].user_data.t = "dict"
    /\ Hashable(DictGet(op[p].user_data, "name", DefaultName))

\* s is a text of the composer's template: it has its title and its closing line.
IsRuleText(s) ==
    /\ Len(s) >= Len(LitTitle) + Len(LitMay)
    /\ SubSeq(s, 1, Len(LitTitle)) = LitTitle
    /\ SubSeq(s, Len(s) - Len(LitMay) + 1, Len(s)) = LitMay

\* The generative attempt of the call of p did not yield an accepted text:
\* the capability is not there, it raised, the cleaner rejected the text, or
\* the text it returned is not valid.
Fallen(p) ==
    \/ ~TRANSFORMERS_AVAILABLE
    \/ loc[p].attempt \in {"unavailable", "raised", "rejected", "invalid"}
    \/ loc[p].ml_gen # <<>> /\ ~IsValid(loc[p].ml_gen)

\* Every entry the store held when the call of p began is in the store now.
KeepsPrevious(p) ==
    \A i \in 1 .. Len(pre[p]) :
        \A j \in 1 .. Len(pre[p][i].hist) :
            \E k \in 1 .. Len(Get(StoreView, pre[p][i].name)) :
                Get(StoreView, pre[p][i].name)[k] = pre[p][i].hist[j]

\* C1: generate_fortune raises nothing and returns a non-empty string for
\* every input, whatever the generator and the store do; where the call went
\* to the outer handler the value returned is the placeholder sentence.
C1_ReturnsString ==
    Returned("p1", "generate") =>
        /\ out["p1"].kind = "str"
        /\ Len(out["p1"].value) > 0
        /\ loc["p1"].path = "except" => out["p1"].value = Placeholder
        /\ loc["p1"].path = "accept" => out["p1"].value = Strip(loc["p1"].ml_gen)
        /\ loc["p1"].path \in {"rule", "short"} => out["p1"].value = loc["p1"].result

\* C1 witness: with the generative path on, a user_data whose name cannot be
\* a key made the generative attempt raise and then the fallback raise, and
\* the call returned the placeholder.
C1_Witness ==
    /\ Returned("p1", "generate")
    /\ TRANSFORMERS_AVAILABLE
    /\ loc["p1"].attempt = "raised"
    /\ loc["p1"].path = "except"
    /\ out["p1"] = [fn |-> "generate", kind |-> "str", value |-> Placeholder]

\* C2: a generate_fortune call that returns a fortune on a successful path
\* (generated text accepted, or rule-based fallback) has made the user's
\* stored history longer by exactly one entry, never by none and never by
\* two, also when text was generated and then rejected as not valid. (No
\* read or write of the store failed in the call.)
C2_ExactlyOneAppend ==
    (/\ Returned("p1", "generate")
     /\ loc["p1"].path \in {"accept", "rule"}
     /\ faults["p1"] = {})
    => Len(Get(StoreView, loc["p1"].name)) = Len(Get(pre["p1"], loc["p1"].name)) + 1

\* C3: when append calls interleave, the store is not corrupted and, once
\* the calls have returned, it holds every appended entry (no lost update).
C3_NoLostUpdate ==
    (\A p \in Procs : pc[p] \in {"idle", "done"}) =>
        /\ dir.store # 0 => JsonLoad(data[dir.store]).ok
        /\ \A i \in 1 .. Len(log) :
              \E j \in 1 .. Len(Get(StoreView, log[i].name)) :
                  Get(StoreView, log[i].name)[j] = log[i].entry

\* C4: at every point of every interleaving, what is at the store path is a
\* complete document, the one the last finished save put there; a write in
\* progress does not show.
C4_ReaderSeesWhole ==
    dir.store # 0 =>
        /\ data[dir.store] = lastSaved
        /\ JsonLoad(data[dir.store]).ok

SaveSteps == {"sw_open", "sw_write", "sw_replace", "sw_except"}

\* C5: while a save has not replaced the store, and after it failed or the
\* process died in it before the replace, a load returns the mapping that was
\* stored before; a save in which a step raised returns False, the others True.
C5_SaveAtomic ==
    /\ ( \/ pc["p1"] \in SaveSteps
         \/ pc["p1"] \in {"am_ret", "pg_ret", "done"} /\ ~saved["p1"]
         \/ pc["p1"] = "crashed" /\ out["p1"].at \in SaveSteps )
       => /\ LoadMemory(FALSE) = pre["p1"]
          /\ dir.store # 0 => JsonLoad(data[dir.store]).ok
    /\ pc["p1"] \in {"am_ret", "pg_ret"} => (saved["p1"] <=> ~raised["p1"])

\* C5 witness: the process died while it was writing the staged file, part of
\* the new document is in the staged file, and the store holds entries.
C5_Witness ==
    /\ pc["p1"] = "crashed"
    /\ out["p1"].at = "sw_write"
    /\ dir.tmp # 0
    /\ Len(data[dir.tmp]) > 0
    /\ EntryCount(pre["p1"]) > 0
    /\ JsonDump(mem["p1"]) # data[dir.store]

\* C6: after any sequence of appends no user's stored history has more than
\* 12 entries, and it is the most recent (at most 12) entries appended for
\* that user, oldest first; after 15 appends it is entries 4 to 15.
C6_RetentionCap ==
    \A u \in Users :
        LET h == Get(StoreView, u)
            all == LogOf(u)
        IN /\ Len(h) <= 12
           /\ pc["p1"] \in {"idle", "done"} =>
                /\ Len(h) = Min(Len(all), 12)
                /\ \A i \in 1 .. Len(h) : h[i] = all[Len(all) - Len(h) + i]
                /\ Len(all) = 15 => h = [i \in 1 .. 12 |-> all[i + 3]]

\* C6 witness: the fifteenth append for one user has returned and the store
\* holds twelve entries for that user, the oldest of them the fourth appended.
C6_Witness ==
    /\ Returned("p1", "append")
    /\ Len(LogOf("ada")) = 15
    /\ Len(Get(StoreView, "ada")) = 12
    /\ Get(StoreView, "ada")[1] = LogOf("ada")[4]
    /\ Len(Get(StoreView, "bob")) > 0

\* C7: purge removes exactly the entries whose timestamp is strictly earlier
\* than the cutoff, in every user's history; the entries at or after the
\* cutoff stay, unchanged and in their order; a user left with no entry is
\* no key of the mapping.
C7_PurgeExact ==
    Returned("p1", "purge") =>
        \A u \in Users :
            LET before == Get(pre["p1"], u)
                after == Get(StoreView, u)
            IN /\ after = SelectSeq(before, LAMBDA h : ~(h.timestamp.t < loc["p1"].cutoff))
               /\ u \in Keys(StoreView) <=>
                     \E i \in 1 .. Len(before) : before[i].timestamp.t >= loc["p1"].cutoff

\* C7 witness: a purge has returned that removed one user altogether, removed
\* some and kept some entries of the other, and kept an entry stamped exactly
\* at the cutoff.
C7_Witness ==
    /\ Returned("p1", "purge")
    /\ \E u \in Users : u \in Keys(pre["p1"]) /\ u \notin Keys(StoreView)
    /\ \E u \in Users :
          /\ Get(StoreView, u) # <<>>
          /\ Len(Get(StoreView, u)) < Len(Get(pre["p1"], u))
    /\ \E u \in Users : \E i \in 1 .. Len(Get(StoreView, u)) :
          Get(StoreView, u)[i].timestamp.t = loc["p1"].cutoff

\* C8: purge_memory_older_than(0) on a store that holds entries removes all
\* of them, returns the number of entries held before, and a load afterwards
\* yields the empty mapping.
C8_PurgeZero ==
    (Returned("p1", "purge") /\ op["p1"].days = 0) =>
        /\ out["p1"].removed = EntryCount(pre["p1"])
        /\ dir.store # 0
        /\ JsonLoad(data[dir.store]) = [ok |-> TRUE, mem |-> EmptyMem]
        /\ LoadMemory(FALSE) = EmptyMem

\* C8 witness: purge_memory_older_than(0) has returned 3 on a store that held
\* three entries of two users.
C8_Witness ==
    /\ Returned("p1", "purge")
    /\ op["p1"].days = 0
    /\ Cardinality(Keys(pre["p1"])) = 2
    /\ EntryCount(pre["p1"]) = 3
    /\ out["p1"].removed = 3

\* C9 as stated: whenever the generative capability is unavailable, raises,
\* or yields text the cleaner or the validity check rejects, generate_fortune
\* returns the output of the rule-based composer, for every user_data.
C9_FallbackForAll ==
    (Returned("p1", "generate") /\ Fallen("p1")) =>
        /\ out["p1"].kind = "str"
        /\ loc["p1"].path = "rule"
        /\ IsRuleText(out["p1"].value)

\* C9: for a user_data that is a mapping whose name can be a key, whenever
\* the generative capability is unavailable, raises, or yields text the
\* cleaner or the validity check rejects, generate_fortune returns the output
\* of the rule-based composer, not the generated text and no error; and
\* when TRANSFORMERS_AVAILABLE is false the generator is never run.
C9_FallbackForMapping ==
    /\ (Returned("p1", "generate") /\ Fallen("p1") /\ WellFormed("p1")) =>
          /\ out["p1"].kind = "str"
          /\ out["p1"].value = loc["p1"].rule
          /\ IsRuleText(out["p1"].value)
          /\ Len(Strip(out["p1"].value)) >= MinRuleLen
          /\ loc["p1"].ml_gen # <<>> => out["p1"].value # Strip(loc["p1"].ml_gen)
    /\ (op["p1"].fn = "generate" /\ ~TRANSFORMERS_AVAILABLE) => ~loc["p1"].invoked

\* C9 witness: the generator returned text that the cleaner passed and the
\* validity check rejected, and the call returned the composer's text.
C9_Witness ==
    /\ Returned("p1", "generate")
    /\ WellFormed("p1")
    /\ loc["p1"].invoked
    /\ loc["p1"].attempt = "invalid"
    /\ loc["p1"].ml_gen # <<>>
    /\ IsRuleText(out["p1"].value)

\* C10: when the load or the save inside the append step fails,
\* generate_fortune still returns the composed fortune, not the placeholder
\* and no error, and the store keeps what it held before the call.
C10_FailureKeepsStore ==
    (/\ Returned("p1", "generate")
     /\ loc["p1"].path \in {"accept", "rule"}
     /\ faults["p1"] # {})
    => /\ out["p1"].kind = "str"
       /\ out["p1"].value \in {loc["p1"].rule, Strip(loc["p1"].ml_gen)}
       /\ out["p1"].value # Placeholder
       /\ KeepsPrevious("p1")

\* The mapping a load has to return: the one the store's document was
\* dumped from when the file is there, can be read and holds a whole document
\* with a mapping at its root, and the empty mapping in every other case.
Stored(p) ==
    IF dir.store # 0 /\ ~op[p].readFault /\ data[dir.store] \in WholeDocs
    THEN CHOOSE m \in StoredMems : JsonDump(m) = data[dir.store]
    ELSE EmptyMem

\* C11: load never raises: it returns the empty mapping when the store is
\* missing, unreadable, not valid JSON or holds a root that is no mapping,
\* and the stored mapping unchanged otherwise.
C11_LoadTotal ==
    \A p \in Procs : Returned(p, "load") => out[p].mem = Stored(p)

\* A load whose read failed has returned the empty mapping, and a load of the
\* same store whose read succeeded has returned the stored mapping of two users.
C11_Witness ==
    /\ Returned("p1", "load") /\ Returned("p2", "load")
    /\ dir.store # 0 /\ data[dir.store] = JsonDump(TwoUserMem)
    /\ op["p1"].readFault /\ out["p1"].mem = EmptyMem
    /\ ~op["p2"].readFault /\ out["p2"].mem = TwoUserMem

\* The twelve sign names.
SignNames == UNION {ELEMENTS[e] : e \in DOMAIN ELEMENTS}

\* The date a call of analyze_zodiac was made with, when it was a valid date.
CalledWith(p, ymd) ==
    /\ Returned(p, "zodiac")
    /\ op[p].birthdate = TextVal(DateText(ymd[1], ymd[2], ymd[3]))

\* C12: for every valid YYYY-MM-DD date, Feb 29 included, analyze_zodiac
\* returns one of the twelve sign names with the element the sign-to-element
\* table gives that sign, and exactly one of the twelve range tests matches
\* the date.
C12_ValidDateHasSign ==
    \A ymd \in ValidDates :
        CalledWith("p1", ymd) =>
            LET z == out["p1"].value IN
            /\ z.sign \in SignNames
            /\ z.element \in DOMAIN ELEMENTS
            /\ z.sign \in ELEMENTS[z.element]
            /\ Cardinality({i \in 1 .. Len(Signs) : InSign(Signs[i], ymd[2], ymd[3])}) = 1

\* analyze_zodiac has returned Pisces and Water for Feb 29 of a leap year.
C12_Witness ==
    /\ CalledWith("p1", <<2000, 2, 29>>)
    /\ out["p1"].value = [sign |-> "Pisces", element |-> "Water"]

\* C13: for a malformed birthdate (no str, a month or day that does not
\* parse, fewer or more than three fields) analyze_zodiac returns exactly
\* ("Unknown", "Void") and never raises.
C13_MalformedUnknown ==
    (Returned("p1", "zodiac") /\ op["p1"].birthdate \in MalformedBirthdates)
        => out["p1"].value = UnknownSign

\* The numeric entries of a profile, as float reads them.
NumericOf(profile) ==
    IF profile.t # "dict" THEN <<>>
    ELSE SelectSeq(profile.items, LAMBDA kv : Float(kv.v).ok)

\* The bucket of the average of whole numbers nums: bright from 4.2,
\* neutral from 2.6, dark below.
RECURSIVE Total(_)
Total(nums) == IF nums = <<>> THEN 0 ELSE Head(nums) + Total(Tail(nums))

Bucket(nums) ==
    IF Total(nums) * 10 >= 42 * Len(nums) THEN "bright"
    ELSE IF Total(nums) * 10 >= 26 * Len(nums) THEN "neutral"
    ELSE "dark"

Rank(tone) == CASE tone = "dark" -> 1 [] tone = "neutral" -> 2 [] tone = "bright" -> 3

\* C14: for a profile with at least one numeric value the tone is bright,
\* neutral or dark by the average of the numeric values (bright from 4.2,
\* neutral from 2.6, both inclusive, dark below; an average that is a NaN is
\* below both), and a profile that raises every numeric value of another
\* never gets a lower tone (dark < neutral < bright).
C14_ToneByAverage ==
    /\ \A p \in Procs :
          (Returned(p, "signature") /\ NumericOf(op[p].profile) # <<>>) =>
              LET numeric == NumericOf(op[p].profile)
                  tone == out[p].value.tone
              IN /\ tone \in {"bright", "neutral", "dark"}
                 /\ IF \E i \in 1 .. Len(numeric) : Float(numeric[i].v).nan
                    THEN tone = "dark"
                    ELSE tone = Bucket([i \in 1 .. Len(numeric) |-> Float(numeric[i].v).v])
    /\ (/\ Returned("p1", "signature") /\ Returned("p2", "signature")
        /\ NumericOf(op["p1"].profile) # <<>>
        /\ Raises(op["p2"].profile, op["p1"].profile))
       => Rank(out["p2"].value.tone) >= Rank(out["p1"].value.tone)

\* Five values of average 2.6 have given neutral, and the same profile with
\* one value raised so that the average is 4.2 has given bright.
C14_Witness ==
    /\ Returned("p1", "signature") /\ Returned("p2", "signature")
    /\ op["p1"].profile = ProfileOf(<<IntVal(1), IntVal(1), IntVal(3), IntVal(3), IntVal(5)>>)
    /\ op["p2"].profile = ProfileOf(<<IntVal(3), IntVal(3), IntVal(5), IntVal(5), IntVal(5)>>)
    /\ out["p1"].value.tone = "neutral"
    /\ out["p2"].value.tone = "bright"

\* C15: the signature is ("neutral", "unknown") for an empty profile, a
\* profile that is no mapping and a profile without numeric entries;
\* otherwise the dominant trait is a key of a numeric entry whose value is
\* the highest of the numeric values, the first such key in the profile's
\* order, and an entry that is no number is never the dominant trait.
C15_DominantIsFirstMax ==
    \A p \in Procs :
        Returned(p, "signature") =>
            LET numeric == NumericOf(op[p].profile)
                numbers == {i \in 1 .. Len(numeric) : ~Float(numeric[i].v).nan}
                IsMax(i) == \A j \in numbers : Float(numeric[i].v).v >= Float(numeric[j].v).v
            IN IF numbers = {}
               THEN numeric = <<>> => out[p].value = [tone |-> "neutral", dominant |-> "unknown"]
               ELSE \E i \in numbers :
                       /\ out[p].value.dominant = numeric[i].k
                       /\ IsMax(i)
                       /\ \A j \in numbers : j < i => ~IsMax(j)

\* The text of the call of the cleaner by p, stripped.
CleanedText(p) == Strip(op[p].text)

\* The cleaner has answered the call of p with the empty string.
Rejected(p) == out[p].kind = "str" /\ out[p].value = <<>>

\* More than 5 words, and one word is strictly more than 60% of the words.
JunkRule(t) ==
    LET ws == Words(t)
    IN /\ Len(ws) > 5
       /\ \E i \in 1 .. Len(ws) :
             100 * Cardinality({j \in 1 .. Len(ws) : ws[j] = ws[i]}) > 60 * Len(ws)

\* C16: clean_generated_text answers a text that has words with the empty
\* string exactly when the text has more than 5 words and one word is
\* strictly more than 60% of them: a text of at most 5 words is never
\* rejected by the rule and a text of 30 identical words is.
C16_JunkRuleExact ==
    (Returned("p1", "clean") /\ CleanedText("p1") # <<>>)
        => (Rejected("p1") <=> JunkRule(CleanedText("p1")))

\* Thirty times the same word has been rejected.
C16_Witness ==
    /\ Returned("p1", "clean")
    /\ Len(Words(op["p1"].text)) = 30
    /\ \A i \in 1 .. 30 : Words(op["p1"].text)[i] = WordGo
    /\ Rejected("p1")

\* The sentences of t: each runs up to and includes the next mark, with the
\* white space around it taken off.
SentencesOf(t) ==
    LET at == {i \in 1 .. Len(t) : t[i] \in Marks}
        n == Cardinality(at)
        pos(k) == IF k = 0 THEN 0 ELSE CHOOSE i \in at : Cardinality({j \in at : j <= i}) = k
    IN [k \in 1 .. n |-> Strip(SubSeq(t, pos(k - 1) + 1, pos(k)))]

\* The first two sentences of t, or its only one.
FirstTwo(t) ==
    LET ss == SentencesOf(t)
    IN IF Len(ss) >= 2 THEN ss[1] \o <<" ">> \o ss[2] ELSE ss[1]

\* C17: for a text that is not rejected and whose sentences end in '.', '?'
\* or '!', in any mix, clean_generated_text returns the first two sentences
\* of the text, or its only sentence, each with the mark it has in the text.
C17_FirstTwoSentences ==
    (/\ Returned("p1", "clean")
     /\ op["p1"].text \in SentenceTexts
     /\ ~JunkRule(CleanedText("p1")))
    => /\ out["p1"].kind = "str"
       /\ out["p1"].value = FirstTwo(op["p1"].text)

\* C18: POST /submit with a JSON body that carries a name, a birthdate
\* string and a quiz mapping answers with status 200 and a body that has a
\* 'fortune' field, whatever the birthdate string holds and also when saving
\* to the database fails.
C18_SubmitAnswers200 ==
    Returned("p1", "submit") =>
        /\ out["p1"].status = 200
        /\ "fortune" \in DOMAIN out["p1"].body

\* The steps of an append_memory_entry call.
AppendSteps == {"am_load", "sw_open", "sw_write", "sw_replace", "sw_except", "am_ret"}

\* generate_fortune has decided in the call of p: the generated text was
\* accepted, or the rule-based composer has run.
Decided(p) == loc[p].attempt = "accepted" \/ loc[p].path \in {"rule", "short"}

\* C19: the orchestrator appends to the store only after the decision to
\* accept the generated text or to fall back, so that no generated text is
\* written before it has passed the validity check, and a text the validity
\* check has rejected is in no entry the call has stored.
C19_PersistAfterDecision ==
    op["p1"].fn = "generate" =>
        /\ pc["p1"] \in AppendSteps => Decided("p1")
        /\ loc["p1"].attempt = "invalid" =>
              LET now == Get(StoreView, loc["p1"].name)
                  before == Get(pre["p1"], loc["p1"].name)
              IN \A i \in 1 .. Len(now) :
                    now[i].fortune = loc["p1"].ml_gen =>
                        \E j \in 1 .. Len(before) : before[j] = now[i]

\* The keys of VOCAB["tones"].
ToneNames == {"bright", "neutral", "dark"}

\* The tones that have one of their lines in the text.
TonesIn(text) ==
    {t \in ToneNames : \E i \in 1 .. Len(ToneLines(t)) : Contains(text, ToneLines(t)[i])}

\* The tone compute_personality_signature gives in the fall back of
\* generate_fortune, and the one it gives in generate_ml_fortune.
RuleSignatureTone(p) == ComputePersonalitySignature(QuizOr(op[p].user_data)).tone
MlSignatureTone(p) ==
    ComputePersonalitySignature(
        DictVal(SelectSeq(QuizOr(op[p].user_data).items,
                          LAMBDA kv : kv.k \notin {"name", "birthdate"}))).tone

\* C20: in a generate_fortune call the tone that picks the tone line of the
\* rule-based fortune is the signature's tone adjusted once for the hour,
\* also after a generative attempt that failed, and the tone of the
\* generative path is the signature's tone adjusted once; no line of a tone
\* adjusted twice, or of any other tone, is in the fortune.
C20_ToneAdjustedOnce ==
    op["p1"].fn = "generate" =>
        /\ loc["p1"].hour # NoHour =>
              TonesIn(loc["p1"].rule) = {TemporalToneAdjust(RuleSignatureTone("p1"), loc["p1"].hour)}
        /\ loc["p1"].ml_hour # NoHour =>
              loc["p1"].ml_tone = TemporalToneAdjust(MlSignatureTone("p1"), loc["p1"].ml_hour)

\* C20 is met where it matters: at night a generative attempt with a bright
\* signature has used the tone neutral, its text was rejected, and the
\* rule-based fortune that followed holds a neutral line, not a dark one.
C20_Witness ==
    /\ Returned("p1", "generate")
    /\ loc["p1"].attempt = "invalid"
    /\ loc["p1"].path = "rule"
    /\ loc["p1"].ml_hour = 3 /\ loc["p1"].hour = 3
    /\ RuleSignatureTone("p1") = "bright"
    /\ loc["p1"].ml_tone = "neutral"
    /\ TonesIn(loc["p1"].rule) = {"neutral"}

\* The table of the adjustment: at night (22..23, 0..5) bright becomes
\* neutral and neutral dark; in the morning (6..10) dark becomes neutral;
\* everything else stays.
AdjustTable(tone, hour) ==
    IF hour \in (22 .. 23) \cup (0 .. 5)
    THEN CASE tone = "bright" -> "neutral"
           [] tone = "neutral" -> "dark"
           [] OTHER -> tone
    ELSE IF hour \in 6 .. 10
    THEN CASE tone = "dark" -> "neutral"
           [] OTHER -> tone
    ELSE tone

\* C21: temporal_tone_adjust returns, for every tone and every hour 0..23,
\* what the table gives: night turns bright into neutral and neutral into
\* dark, morning turns dark into neutral, the hours 11..21 change nothing, and
\* a tone that is none of the three names comes back as it is.
C21_AdjustTable ==
    Returned("p1", "adjust") =>
        out["p1"].value = AdjustTable(op["p1"].tone, op["p1"].hour)

\* C21 at a boundary: at hour 5 neutral has become dark.
C21_Witness ==
    /\ Returned("p1", "adjust")
    /\ op["p1"].tone = "neutral" /\ op["p1"].hour = 5
    /\ out["p1"].value = "dark"

\* C22: a string generate_fortune returns from the generative path passes
\* the final validity check: it is not empty, has at least 10 characters
\* after trimming, holds none of the bad-output markers whatever the case of
\* its letters, and is not repetitive junk.
C22_AcceptedIsValid ==
    (Returned("p1", "generate") /\ loc["p1"].path = "accept") =>
        LET text == out["p1"].value
        IN /\ out["p1"].kind = "str"
           /\ text # <<>>
           /\ Len(Strip(text)) >= 10
           /\ \A i \in 1 .. Len(BadMarkers) : ~Contains(Lower(text), BadMarkers[i])
           /\ ~JunkRule(text)

\* C22 has its case: a generated text was accepted and returned.
C22_Witness ==
    /\ Returned("p1", "generate")
    /\ loc["p1"].path = "accept"
    /\ loc["p1"].invoked
    /\ out["p1"].value = Strip(loc["p1"].ml_gen)
    /\ Len(out["p1"].value) >= 10

\* h is a part of g with its order kept: the entries of h are entries of g,
\* unaltered, in the order they have in g.
RECURSIVE SubHistory(_, _)
SubHistory(h, g) ==
    IF h = <<>> THEN TRUE
    ELSE IF g = <<>> THEN FALSE
    ELSE IF Head(h) = Head(g) THEN SubHistory(Tail(h), Tail(g))
    ELSE SubHistory(h, Tail(g))

\* The users of a store before or after the call of p.
UsersAround(p) == Keys(pre[p]) \cup Keys(StoreView)

\* C23: a stored history changes only through append or purge and an entry
\* never changes once appended: an append leaves every other user's history
\* as it was and the user's own history as its retained earlier entries, in
\* their order, with the new entry last; after a purge, a read or a run of the
\* cleanup script every entry in the store is an entry that was there before,
\* with every field as it was, and a read changes nothing at all.
C23_OnlyAppendAndPurge ==
    /\ Returned("p1", "append") =>
          /\ \A u \in UsersAround("p1") \ {arg["p1"].name} :
                Get(StoreView, u) = Get(pre["p1"], u)
          /\ LET now == Get(StoreView, arg["p1"].name)
             IN now # <<>> =>
                   /\ now[Len(now)].fortune = arg["p1"].fortune
                   /\ SubHistory(SubSeq(now, 1, Len(now) - 1), Get(pre["p1"], arg["p1"].name))
    /\ (Returned("p1", "purge") \/ Returned("p1", "cleanup")) =>
          \A u \in UsersAround("p1") : SubHistory(Get(StoreView, u), Get(pre["p1"], u))
    /\ Returned("p1", "load") => StoreView = pre["p1"]

\* C25: an append for one user removes no other user's history: the
\* histories the store held for other users when the append began are in
\* the store, unchanged, when it has returned, also when the read at the
\* start of the append failed and load_memory gave the empty mapping.
C25_AppendKeepsOthers ==
    Returned("p1", "append") =>
        \A u \in Keys(pre["p1"]) \ {arg["p1"].name} :
            /\ u \in Keys(StoreView)
            /\ Get(StoreView, u) = Get(pre["p1"], u)

\* text.lower().count(t) for the theme at place i of the vocabulary
CountOfTheme(text, i) == StrCount(Lower(text), Chars[Themes[i]])

\* C24: guess_theme_from_text returns one of the 20 themes; when a theme
\* occurs in the text (lower-cased substring count above 0) the theme returned
\* has the highest count and no theme before it in the vocabulary has that
\* count; when every count is 0 the theme returned is the random draw.
C24_GuessTheme ==
    Returned("p1", "guess") =>
        LET text == op["p1"].text
            some == \E i \in 1 .. Len(Themes) : CountOfTheme(text, i) > 0
        IN /\ Len(Themes) = 20
           /\ \E r \in 1 .. Len(Themes) :
                /\ out["p1"].value = Themes[r]
                /\ some => /\ \A i \in 1 .. Len(Themes) : CountOfTheme(text, i) <= CountOfTheme(text, r)
                           /\ \A i \in 1 .. r - 1 : CountOfTheme(text, i) < CountOfTheme(text, r)
           /\ ~some => out["p1"].value = op["p1"].choice

\* C24 on a tie: "TIDE Echo" holds tide and echo once each, the draw was
\* garden, and echo, the earlier of the two, came back.
C24_Witness ==
    /\ Returned("p1", "guess")
    /\ op["p1"].text = Join(<<<<"T", "I", "D", "E">>, <<"E", "c", "h", "o">>>>)
    /\ op["p1"].choice = "garden"
    /\ out["p1"].value = "echo"

\* C26: the count purge_memory_older_than returns is the number of entries
\* that left the store: after a purge that returned n > 0 the store holds
\* exactly n entries fewer than before the call, also when the save at the
\* end of the purge failed.
C26_PurgeCountIsRemoved ==
    (Returned("p1", "purge") /\ out["p1"].removed > 0) =>
        EntryCount(StoreView) = EntryCount(pre["p1"]) - out["p1"].removed

\* An entry of the mapping m has a timestamp fromisoformat does not take.
HasBadTimestamp(m) ==
    \E i \in 1 .. Len(m) : \E j \in 1 .. Len(m[i].hist) : ~IsoParses(m[i].hist[j].timestamp)

\* C27: when an entry of the store has a missing or unparseable timestamp,
\* purge_memory_older_than returns 0 without raising and the store is as it
\* was before the call: no entry of any user is gone, the ones older than
\* the cutoff that the loop met before the bad entry included.
C27_BadTimestampPurgesNothing ==
    (Returned("p1", "purge") /\ HasBadTimestamp(pre["p1"])) =>
        /\ out["p1"] = [fn |-> "purge", removed |-> 0]
        /\ StoreView = pre["p1"]
        /\ data[dir.store] = lastSaved

\* C28: the tone handed to append_memory_entry for a fortune is the tone the
\* fortune was composed with, the signature's tone after the adjustment for
\* the hour: on the rule-based path the tone line of the fortune is a line of
\* the recorded tone, on the generative path the recorded tone is the adjusted
\* tone of the prompt.
C28_RecordedToneIsComposedTone ==
    (op["p1"].fn = "generate" /\ arg["p1"].name # "") =>
        /\ (loc["p1"].path = "rule" /\ arg["p1"].fortune = loc["p1"].rule) =>
              /\ arg["p1"].tone = TemporalToneAdjust(RuleSignatureTone("p1"), loc["p1"].hour)
              /\ TonesIn(arg["p1"].fortune) = {arg["p1"].tone}
        /\ (loc["p1"].path # "rule" /\ loc["p1"].ml_hour # NoHour
              /\ arg["p1"].fortune = loc["p1"].ml_gen) =>
              arg["p1"].tone = TemporalToneAdjust(MlSignatureTone("p1"), loc["p1"].ml_hour)

\* The themes whose title line the text begins with.
TitleThemes(text) ==
    {t \in {Themes[i] : i \in 1 .. Len(Themes)} :
        MatchAt(text, LitTitle \o Title(Chars[t]) \o LitDash, 1)}

\* C29: the theme handed to append_memory_entry for a rule-based fortune is
\* the theme the composer sampled, the one in the title line of the fortune,
\* whatever the name, the trait, the tone line and the history are.
C29_RecordedThemeIsSampledTheme ==
    (op["p1"].fn = "generate" /\ loc["p1"].path = "rule" /\ arg["p1"].fortune = loc["p1"].rule) =>
        TitleThemes(arg["p1"].fortune) = {arg["p1"].theme}

\* C30: analyze_zodiac of fortune_engine and analyze_zodiac of astrology
\* give the same (sign, element) for every birthdate, so the zodiac of the
\* fortune and the zodiac of the response of one submission are the same.
C30_ResolversAgree ==
    Returned("p1", "resolvers") => out["p1"].fortune = out["p1"].hints
====
